---------------------------- MODULE Spec2Model ----------------------------
(***************************************************************************)
(* The performance predictor of the Strava toolkit server                  *)
(* (src/server/src/index.ts, GET /api/predict) as a state machine.         *)
(*                                                                         *)
(* Numbers.  A JavaScript number is an integer where the code only         *)
(* compares or divides it (distances in metres, times in seconds: paces    *)
(* and ratios are exact rationals), and a fixed-point integer in tenths    *)
(* (LogScale) in log space, where the regression works.  IEEE-754          *)
(* behaviour that the integers do not have is modelled explicitly:         *)
(* NaN / Infinity as values, overflow and underflow of Math.exp and        *)
(* Math.pow, and the rounding residue that is all that is left of a        *)
(* determinant whose exact value is zero.                                  *)
(***************************************************************************)
EXTENDS Integers, Sequences, FiniteSets, TLC

VARIABLES
    users,   \* prisma.user table: user id -> [accessToken, refreshToken, expiresAt]
    now,     \* the server clock, in seconds (Date.now() / 1000)
    pc,      \* where the predictPerformance handler is suspended
    req,     \* the request being handled
    user,    \* the user row the handler read (ensureFreshTokenForUserId's user)
    data,    \* what refreshAccessToken returned to the handler
    token,   \* the access token the handler holds
    acts,    \* what getActivities returned to the handler
    pts,     \* the handler's points (let pts), as last assigned
    fitRo,   \* the rounding residues of the fit the handler ran
    calls,   \* the external calls the handler has made for this request
    res      \* the response sent for this request

vars == <<users, now, pc, req, user, data, token, acts, pts, fitRo, calls, res>>

-----------------------------------------------------------------------------
(* JavaScript values *)

Undefined == [undef |-> TRUE]
Null == [null |-> TRUE]
NaN == [nan |-> TRUE]
Infinity == [inf |-> TRUE]
Num(v) == [num |-> v]
\* a finite double too large for an integer of the model: 10^e
Big(e) == [big |-> e]
Str(s) == [str |-> s]

IsNum(x) == DOMAIN x = {"num"}
IsBig(x) == DOMAIN x = {"big"}
IsStr(x) == DOMAIN x = {"str"}
\* isFinite(x) for x a number value
IsFinite(x) == IsNum(x) \/ IsBig(x)

Abs(n) == IF n < 0 THEN -n ELSE n
Max(a, b) == IF a >= b THEN a ELSE b

RECURSIVE GCD(_, _)
GCD(a, b) == IF b = 0 THEN a ELSE GCD(b, a % b)

\* a / b as a fraction in lowest terms, b > 0
Rat(a, b) == LET g == GCD(Abs(a), b) IN [n |-> a \div g, d |-> b \div g]
RatLE(p, q) == p.n * q.d <= q.n * p.d
RatLT(p, q) == p.n * q.d < q.n * p.d
RatAdd(p, q) == Rat(p.n * q.d + q.n * p.d, p.d * q.d)
\* p * (a / b)
RatScale(p, a, b) == Rat(p.n * a, p.d * b)

-----------------------------------------------------------------------------
(* Tunables *)

HALF_LIFE_DAYS == 60
MIN_DISTANCE_M == 800
MIN_POINTS == 4
\* MIN_MOVE_ELAPSED_RATIO = 0.8, in hundredths
MIN_MOVE_ELAPSED_RATIO == 80

SecondsPerDay == 86400
HalfLifeSecs == HALF_LIFE_DAYS * SecondsPerDay

-----------------------------------------------------------------------------
(* mapStravaAct: a Strava activity object -> Point | null *)

\* String.prototype.toLowerCase on the type labels Strava sends
ToLowerCase(s) ==
    CASE s \in {"run", "Run", "rUn", "ruN", "RUn", "RuN", "rUN", "RUN"} -> "run"
      [] s \in {"Ride", "ride"} -> "ride"
      [] s \in {"TrailRun", "trailrun"} -> "trailrun"
      [] OTHER -> s

\* Number(s) of a string
StringToNumber(s) ==
    CASE s = "5.0" -> Num(5)
      [] s = "5" -> Num(5)
      [] s = "10" -> Num(10)
      [] s = "0" -> Num(0)
      [] s = "" -> Num(0)
      [] s = "-3" -> Num(-3)
      [] s = "1e306" -> Big(306)
      [] s = "Infinity" -> Infinity
      [] OTHER -> NaN

\* Number(v)
ToNumber(v) ==
    CASE IsNum(v) -> v
      [] v = Infinity -> Infinity
      [] v = Null -> Num(0)
      [] IsStr(v) -> StringToNumber(v.str)
      [] OTHER -> NaN

\* new Date(String(v)).getTime(): the epoch seconds of an ISO date string,
\* NaN for anything else.  A parsable date string is modelled as Num(t).
DateGetTime(v) == IF IsNum(v) THEN v ELSE NaN

\* a.type is a string or absent, as Strava sends it
mapStravaAct(a) ==
    IF a = Null THEN Null
    ELSE IF ~IsStr(a.type) \/ ToLowerCase(a.type.str) # "run" THEN Null
    ELSE
        LET distance == ToNumber(a.distance)
            movingTime == ToNumber(a.moving_time)
            elapsedMaybe == IF a.elapsed_time \in {Null, Undefined}
                            THEN Undefined ELSE ToNumber(a.elapsed_time)
            startDate == DateGetTime(a.start_date)
        IN  IF ~IsFinite(distance) \/ ~IsFinite(movingTime) \/ startDate = NaN
            THEN Null
            ELSE [distance |-> distance.num,
                  movingTime |-> movingTime.num,
                  elapsedTime |-> IF IsNum(elapsedMaybe) THEN elapsedMaybe
                                  ELSE Undefined,
                  startDate |-> startDate.num]

NotNull(p) == p # Null

\* a variant of LongEnough that keeps a run of exactly MIN_DISTANCE_M
LongEnoughInclusive(p) == p.distance >= MIN_DISTANCE_M /\ p.movingTime > 0

LongEnough(p) == p.distance > MIN_DISTANCE_M /\ p.movingTime > 0

\* acts.map(mapStravaAct).filter(p !== null).filter(distance > MIN && movingTime > 0)
Normalize(as) ==
    SelectSeq(SelectSeq([i \in 1..Len(as) |-> mapStravaAct(as[i])], NotNull),
              LongEnough)

-----------------------------------------------------------------------------
(* The pause filter *)

\* a variant of PauseKeep that discards a ratio of exactly 0.8
PauseKeepStrict(p) ==
    IF ~IsNum(p.elapsedTime) \/ p.elapsedTime.num <= 0 THEN TRUE
    ELSE p.movingTime * 100 > MIN_MOVE_ELAPSED_RATIO * p.elapsedTime.num

PauseKeep(p) ==
    IF ~IsNum(p.elapsedTime) \/ p.elapsedTime.num <= 0 THEN TRUE
    ELSE p.movingTime * 100 >= MIN_MOVE_ELAPSED_RATIO * p.elapsedTime.num

PauseFilter(points) == SelectSeq(points, PauseKeep)

-----------------------------------------------------------------------------
(* median and the outlier filter *)

Pace(p) == Rat(p.movingTime, p.distance)

\* insert q into the ascending sequence s
RECURSIVE Insert(_, _)
Insert(q, s) ==
    IF s = <<>> THEN <<q>>
    ELSE IF RatLE(q, Head(s)) THEN <<q>> \o s
    ELSE <<Head(s)>> \o Insert(q, Tail(s))

\* [...nums].sort((a, b) => a - b)
RECURSIVE SortAsc(_)
SortAsc(s) == IF s = <<>> THEN <<>> ELSE Insert(Head(s), SortAsc(Tail(s)))

median(nums) ==
    LET n == Len(nums)
        arr == SortAsc(nums)
        mid == n \div 2
    IN  IF n = 0 THEN Rat(0, 1)
        ELSE IF n % 2 = 1 THEN arr[mid + 1]
        ELSE RatScale(RatAdd(arr[mid], arr[mid + 1]), 1, 2)

\* a variant of InBand with the edges of the band excluded
InBandOpen(pace, med) ==
    RatLT(RatScale(med, 1, 2), pace) /\ RatLT(pace, RatScale(med, 2, 1))

\* pace >= low && pace <= high, low = 0.5 * med, high = 2.0 * med
InBand(pace, med) ==
    RatLE(RatScale(med, 1, 2), pace) /\ RatLE(pace, RatScale(med, 2, 1))

OutlierFilter(points) ==
    LET paces == [i \in 1..Len(points) |-> Pace(points[i])]
        med == median(paces)
        idx == SelectSeq([i \in 1..Len(points) |-> i],
                         LAMBDA i : InBand(paces[i], med))
    IN  [k \in 1..Len(idx) |-> points[idx[k]]]

-----------------------------------------------------------------------------
(* Log space.  Math.log and Math.exp in fixed point, LogScale units per    *)
(* neper, computed from the doublings of one anchor (ln 2 = 0.7, linear    *)
(* between two doublings), so that Exp inverts Log on the anchor's grid.   *)

LogScale == 10
\* ln 2 in LogScale units
Ln2 == 7
\* the anchor: ln 1500 = 7.3
AnchorVal == 1500
AnchorLog == 73
\* ln 10 = 2.303, in thousandths
Ln10Milli == 2303

\* round(a / b) for b > 0, halves up (Math.round)
RoundDiv(a, b) == (2 * a + b) \div (2 * b)
FloorDiv(a, b) == a \div b

RECURSIVE Pow2(_)
Pow2(k) == IF k <= 0 THEN 1 ELSE 2 * Pow2(k - 1)

\* the q with base * 2^q <= v < base * 2^(q+1), for v >= base
RECURSIVE DoublingsUp(_, _)
DoublingsUp(v, base) == IF v < 2 * base THEN 0 ELSE 1 + DoublingsUp(v, 2 * base)

\* the q > 0 with 2^q * v >= base > 2^(q-1) * v, for 0 < v < base
RECURSIVE DoublingsDown(_, _)
DoublingsDown(v, base) == IF 2 * v >= base THEN 1 ELSE 1 + DoublingsDown(2 * v, base)

\* Math.log(v) for an integer v > 0
Log(v) ==
    IF v >= AnchorVal
    THEN LET q == DoublingsUp(v, AnchorVal)
             lo == AnchorVal * Pow2(q)
         IN  AnchorLog + Ln2 * q + RoundDiv(Ln2 * (v - lo), lo)
    ELSE LET q == DoublingsDown(v, AnchorVal)
             s == v * Pow2(q)       \* AnchorVal <= s < 2 * AnchorVal
         IN  AnchorLog - Ln2 * q + RoundDiv(Ln2 * (s - AnchorVal), AnchorVal)

\* Math.log of a finite positive number value
LogOf(x) ==
    IF IsNum(x) THEN Log(x.num)
    ELSE RoundDiv(Ln10Milli * x.big * LogScale, 1000)

\* Math.exp overflows to Infinity above ln(MAX_VALUE) = 709.78 and
\* underflows to 0 below ln(MIN_VALUE) - ln 2 = -745.13
ExpOverflow == 7097
ExpUnderflow == -7451

\* seconds are kept in tenths (toFixed(1))
SecScale == 10
\* beyond this many doublings of the anchor an integer of the model overflows
MaxDoublings == 13

\* Math.exp(k / LogScale) for an integer k within range, in 1/SecScale
Exp(k) ==
    LET q == FloorDiv(k - AnchorLog, Ln2)
        r == (k - AnchorLog) % Ln2
        a == AnchorVal * SecScale * (Ln2 + r)
    IN  IF q > MaxDoublings THEN Big(FloorDiv(k * 1000, Ln10Milli * LogScale))
        ELSE IF q >= 0 THEN Num(RoundDiv(a * Pow2(q), Ln2))
        ELSE IF -q > MaxDoublings THEN Num(0)
        ELSE Num(RoundDiv(a, Ln2 * Pow2(-q)))

-----------------------------------------------------------------------------
(* recencyWeight *)

\* weights are kept in 1/WeightScale
WeightScale == 8

\* Math.pow(0.5, days / HALF_LIFE_DAYS), days = max(0, now - start) / 86400
recencyWeight(start, tnow) ==
    LET secs == Max(0, tnow - start)
        halfLives == FloorDiv(secs, HalfLifeSecs)
    IN  FloorDiv(WeightScale, Pow2(halfLives))

-----------------------------------------------------------------------------
(* fitPowerLaw *)

RatS(a, b) == IF b < 0 THEN Rat(-a, -b) ELSE Rat(a, b)
RatNeg(p) == [n |-> -p.n, d |-> p.d]
RatInt(k) == [n |-> k, d |-> 1]
\* Math.round of a fraction
RatRound(p) == RoundDiv(p.n, p.d)

RECURSIVE SumSeq(_)
SumSeq(s) == IF s = <<>> THEN 0 ELSE Head(s) + SumSeq(Tail(s))

\* the integer nearest to the square root of n >= 0
Sqrt(n) ==
    IF n = 0 THEN 0 ELSE CHOOSE r \in 1..n : r * r - r < n /\ n <= r * r + r

(* Rounding.  The sums and the determinant are exact here; in doubles each *)
(* carries a rounding error of a few units in the last place.  Where the   *)
(* exact determinant is not zero the error is far below one unit of the    *)
(* model and changes nothing.  Where it is zero (all x equal) the computed *)
(* determinant and the two numerators are nothing but their rounding       *)
(* residues, which depend on the timestamps to the millisecond: ro gives   *)
(* them, in units in the last place.                                       *)

\* the spacing of doubles at sw * swxx, in 1e-15; the numerators are
\* NumUlpRatio times larger
DetUlp == 227
NumUlpRatio == 16
\* the guard's 1e-12, in 1e-15
DetEps == 1000

NoRoundoff == [det |-> 0, n0 |-> 0, n1 |-> 0, rt |-> 0]

\* lines 294-300: the weighted root mean square of the residuals
RmseLog(x, y, w, sw, beta0, beta1) ==
    LET r == [i \in DOMAIN x |->
                RatRound(RatAdd(RatAdd(RatInt(y[i]), RatNeg(beta0)),
                                RatNeg(RatScale(beta1, x[i], 1))))]
    IN  Sqrt(RoundDiv(SumSeq([i \in DOMAIN x |-> w[i] * r[i] * r[i]]), sw))

\* lines 294-302: the fit with its residual
Fitted(x, y, w, sw, beta0, beta1) ==
    [logA |-> beta0, b |-> beta1,
     rmseLog |-> RmseLog(x, y, w, sw, beta0, beta1)]

\* a variant of Solve whose guard lets every non-zero determinant through
SolveAnyResidue(x, y, w, sw, swx, swy, swxx, swxy, det, ro) ==
    IF (det = 0 /\ ro.det = 0) \/ sw = 0 THEN Null
    ELSE IF det # 0
    THEN Fitted(x, y, w, sw, RatS(swy * swxx - swx * swxy, det),
                RatS(sw * swxy - swx * swy, det))
    ELSE Fitted(x, y, w, sw, RatS(ro.n0 * NumUlpRatio * LogScale, ro.det),
                RatS(ro.n1, ro.det))

\* lines 289-292: the guard and the two coefficients.  Where the exact
\* determinant is zero, what the doubles hold is the residue ro.  The sums
\* of the logarithms of positive finite numbers are finite, and so is det
Solve(x, y, w, sw, swx, swy, swxx, swxy, det, ro) ==
    IF (det = 0 /\ Abs(ro.det) * DetUlp < DetEps) \/ sw = 0 THEN Null
    ELSE IF det # 0
    THEN Fitted(x, y, w, sw, RatS(swy * swxx - swx * swxy, det),
                RatS(sw * swxy - swx * swy, det))
    ELSE Fitted(x, y, w, sw, RatS(ro.n0 * NumUlpRatio * LogScale, ro.det),
                RatS(ro.n1, ro.det))

\* line 288: the determinant
SolveSums(x, y, w, sw, swx, swy, swxx, swxy, ro) ==
    Solve(x, y, w, sw, swx, swy, swxx, swxy, sw * swxx - swx * swx, ro)

\* lines 283-287: the weighted sums
Sums(x, y, w, ro) ==
    SolveSums(x, y, w, SumSeq(w),
              SumSeq([i \in DOMAIN x |-> w[i] * x[i]]),
              SumSeq([i \in DOMAIN x |-> w[i] * y[i]]),
              SumSeq([i \in DOMAIN x |-> w[i] * x[i] * x[i]]),
              SumSeq([i \in DOMAIN x |-> w[i] * x[i] * y[i]]), ro)

fitPowerLaw(points, tnow, ro) ==
    IF Len(points) < 2 THEN Null
    ELSE Sums([i \in 1..Len(points) |-> Log(points[i].distance)],
              [i \in 1..Len(points) |-> Log(points[i].movingTime)],
              [i \in 1..Len(points) |->
                  recencyWeight(points[i].startDate, tnow)], ro)

-----------------------------------------------------------------------------
(* predictSeconds and the confidence bounds.  A non-negative double is     *)
(* Zero, Infinity, NaN or e ^ (lg / LogScale) with lg a fraction, ulp      *)
(* units in the last place away from the double nearest to that number.    *)

Zero == [zero |-> TRUE]
Fin(lg) == [lg |-> lg, ulp |-> 0]
IsFin(v) == DOMAIN v = {"lg", "ulp"}

\* the double u units in the last place above v
Displaced(v, u) == [lg |-> v.lg, ulp |-> v.ulp + u]

\* a <= b on doubles: false when either is NaN
DoubleLE(a, b) ==
    IF a = NaN \/ b = NaN THEN FALSE
    ELSE IF a = Zero \/ b = Infinity THEN TRUE
    ELSE IF a = Infinity \/ b = Zero THEN FALSE
    ELSE RatLT(a.lg, b.lg) \/ (a.lg = b.lg /\ a.ulp <= b.ulp)

\* Math.exp(lg / LogScale)
ExpOf(lg) ==
    IF RatLT(RatInt(ExpOverflow), lg) THEN Infinity
    ELSE IF RatLT(lg, RatInt(ExpUnderflow)) THEN Zero
    ELSE Fin(lg)

\* targetKm * 1000
Times1000(x) ==
    IF IsNum(x) THEN Num(x.num * 1000)
    ELSE IF x.big + 3 > 308 THEN Infinity
    ELSE Big(x.big + 3)

\* Math.pow(distanceM, b), distanceM > 0
PowOf(distanceM, b) ==
    IF distanceM = Infinity
    THEN IF b.n > 0 THEN Infinity ELSE IF b.n < 0 THEN Zero ELSE Fin(RatInt(0))
    ELSE ExpOf(RatScale(b, LogOf(distanceM), 1))

\* e * p for two non-negative doubles
Times(e, p) ==
    IF (e = Zero /\ p = Infinity) \/ (e = Infinity /\ p = Zero) THEN NaN
    ELSE IF e = Infinity \/ p = Infinity THEN Infinity
    ELSE IF e = Zero \/ p = Zero THEN Zero
    ELSE ExpOf(RatAdd(e.lg, p.lg))

\* a variant of predictSeconds without the intercept
predictSecondsNoIntercept(logA, b, distanceM) == PowOf(distanceM, b)

predictSeconds(logA, b, distanceM) == Times(ExpOf(logA), PowOf(distanceM, b))

\* Math.exp(Math.log(v) + delta).  Math.log and Math.exp each round, so the
\* round trip does not give v back: where delta is too small to move the
\* logarithm, the result is v displaced by the residue rt of the round trip
ExpLogPlus(v, delta, rt) ==
    IF ~IsFin(v) THEN v
    ELSE IF delta = 0 THEN Displaced(v, rt)
    ELSE ExpOf(RatAdd(v.lg, RatInt(delta)))

\* line 397: const lowSec = Math.exp(Math.log(predSec) - rmseLog)
lowSec(predSec, rmseLog, rt) == ExpLogPlus(predSec, -rmseLog, rt)

\* line 398: const highSec = Math.exp(Math.log(predSec) + rmseLog)
highSec(predSec, rmseLog, rt) == ExpLogPlus(predSec, rmseLog, rt)

\* the double as a number of the model: tenths of a second
Seconds(v) ==
    IF IsFin(v) THEN Exp(RatRound(v.lg))
    ELSE IF v = Zero THEN Num(0)
    ELSE v

-----------------------------------------------------------------------------
(* formatHHMMSS, pacePerKm *)

\* n.toString().padStart(2, "0")
Pad2(n) == IF Len(ToString(n)) < 2 THEN "0" \o ToString(n) ELSE ToString(n)

formatHHMMSS(totalSec) ==
    CASE totalSec = NaN -> "NaN:NaN"
      [] totalSec = Infinity -> "Infinity:NaN:NaN"
      \* hours beyond the integers of the model: the exponent stands for them
      [] IsBig(totalSec) -> "1e+" \o ToString(totalSec.big) \o "s"
      [] OTHER ->
            LET sec == Max(0, RoundDiv(totalSec.num, SecScale))
                h == sec \div 3600
                m == (sec % 3600) \div 60
                ss == sec % 60
            IN  IF h # 0
                THEN ToString(h) \o ":" \o Pad2(m) \o ":" \o Pad2(ss)
                ELSE ToString(m) \o ":" \o Pad2(ss)

pacePerKm(totalSec, km) ==
    CASE totalSec = NaN -> "NaN:NaN/km"
      [] totalSec = Infinity -> "Infinity:NaN/km"
      [] IsBig(km) /\ IsNum(totalSec) -> "0:00/km"
      [] IsBig(totalSec) \/ IsBig(km) -> "1e+?/km"
      [] OTHER ->
            \* spk = totalSec / km, in 1 / (SecScale * km)
            LET unit == SecScale * km.num
                spk == IF km.num > 0 THEN totalSec.num ELSE 0
                mm == spk \div (60 * unit)
                ss == RoundDiv(spk % (60 * unit), unit)
            IN  ToString(mm) \o ":" \o Pad2(ss) \o "/km"

-----------------------------------------------------------------------------
(* predictPerformance: the request and the response *)

\* res.status(code).json(body); res.json(body) answers 200
Response(code, body) == [status |-> code, body |-> body]
ErrorBody(msg) == [error |-> msg]
NoResponse == Response(0, Null)

\* a variant of JsonNumber that lets NaN and Infinity through
JsonNumberKept(v) == v

\* JSON.stringify of a number: NaN and Infinity become null
JsonNumber(v) == IF v \in {NaN, Infinity} THEN Null ELSE v

\* a truthy string
Truthy(v) == IsStr(v) /\ v.str # ""

getUserId(r) ==
    IF Truthy(r.user) THEN r.user
    ELSE IF Truthy(r.session) THEN r.session
    ELSE IF Truthy(r.header) THEN r.header
    ELSE Null

\* Number(req.query.distance_km ?? "5.0")
TargetKm(r) ==
    StringToNumber(IF r.distance_km = Undefined THEN "5.0" ELSE r.distance_km.str)

\* a variant of InvalidTarget that lets zero through
InvalidTargetNegative(km) == ~IsFinite(km) \/ (IsNum(km) /\ km.num < 0)

\* !isFinite(targetKm) || targetKm <= 0
InvalidTarget(km) == ~IsFinite(km) \/ (IsNum(km) /\ km.num <= 0)

\* a variant of FitFailed answered as a client error
FitFailedAs400 == Response(400, ErrorBody("Model fit failed"))

\* res.status(500).json({ error: "Model fit failed" })
FitFailed == Response(500, ErrorBody("Model fit failed"))

\* lines 397-409: the success body
SuccessBody(targetKm, predSec, rmseLog, fit, used, rt) ==
    [distance_km |-> targetKm,
     prediction_seconds |-> JsonNumber(Seconds(predSec)),
     prediction_time |-> formatHHMMSS(Seconds(predSec)),
     pace_per_km |-> pacePerKm(Seconds(predSec), targetKm),
     confidence_low_time |-> formatHHMMSS(Seconds(lowSec(predSec, rmseLog, rt))),
     confidence_high_time |-> formatHHMMSS(Seconds(highSec(predSec, rmseLog, rt))),
     model |-> [log_a |-> fit.logA, b |-> fit.b, rmse_log |-> rmseLog],
     used_points |-> used]

\* lines 392-409: the answer for a fit
Answer(fit, targetKm, used, rt) ==
    IF fit = Null THEN FitFailed
    ELSE Response(200,
            SuccessBody(targetKm,
                        predictSeconds(fit.logA, fit.b, Times1000(targetKm)),
                        fit.rmseLog, fit, used, rt))

\* lines 391-409: the fit, the prediction and the success body
Predict(points, targetKm, tnow, ro) ==
    Answer(fitPowerLaw(points, tnow, ro), targetKm, Len(points), ro.rt)

\* a variant of TooFew that lets MIN_POINTS - 1 points through
TooFewLax(points) == Len(points) < MIN_POINTS - 1

\* a variant of TooFew that also refuses exactly MIN_POINTS points
TooFewInclusive(points) == Len(points) <= MIN_POINTS

\* pts.length < MIN_POINTS
TooFew(points) == Len(points) < MIN_POINTS

\* a variant of NotEnoughClean that repeats the first gate's message
NotEnoughCleanRepeated == "Need at least 4 valid runs"

\* the three InsufficientData messages
NeedValidRuns == "Need at least 4 valid runs"
NotEnoughClean == "Not enough clean runs after filtering"
TooManyOutliers == "Too many outliers removed; collect a few more steady runs"

\* lines 361-409: from the activities to the points and the response
Pipeline(as, targetKm, tnow, ro) ==
    LET pts0 == Normalize(as)
        pts1 == PauseFilter(pts0)
        pts2 == OutlierFilter(pts1)
    IN  IF TooFew(pts0)
        THEN [pts |-> pts0, res |-> Response(400, ErrorBody(NeedValidRuns))]
        ELSE IF TooFew(pts1)
        THEN [pts |-> pts1, res |-> Response(400, ErrorBody(NotEnoughClean))]
        ELSE IF TooFew(pts2)
        THEN [pts |-> pts2, res |-> Response(400, ErrorBody(TooManyOutliers))]
        ELSE [pts |-> pts2, res |-> Predict(pts2, targetKm, tnow, ro)]

\* the catch block
ServerError == Response(500, ErrorBody("Server error"))

-----------------------------------------------------------------------------
(* The environment: requests, Strava's answers, the clock *)

\* bounds of the model
MaxActs == 5
MaxTicks == 1
MaxUlps == 5
MaxRoundTripUlps == 1
\* the slowest pace looked for in a response, in minutes per km
MaxPaceMinutes == 30

\* Strava access tokens live six hours
TokenLifetime == 21600

Run(label, d, mt, el, start) ==
    [type |-> Str(label), distance |-> Num(d), moving_time |-> Num(mt),
     elapsed_time |-> el, start_date |-> Num(start)]

\* the steady runs are half a half-life (30 days) apart
Spacing == HalfLifeSecs \div 2

\* the activities Strava may hold for the athlete, most recent first: five
\* steady 5 km runs evenly spaced, a 10 km run at the same pace and one
\* slower, a run with long pauses, a walk-paced one and a ride; the first,
\* the slower 10 km run, is dated a day after the clock's first reading (a
\* watch running ahead), the last has an elapsed time reported below its
\* moving time
StravaActs ==
    << Run("Run", 10000, 4200, Num(4300), SecondsPerDay),
       Run("Run", 5000, 1500, Num(1530), 0),
       Run("Run", 10000, 3000, Num(3000), -1 * SecondsPerDay),
       Run("Run", 5000, 1500, Num(2500), -2 * SecondsPerDay),
       Run("Ride", 20000, 3000, Num(3100), -3 * SecondsPerDay),
       Run("run", 5000, 1500, Null, -Spacing),
       Run("Run", 5000, 6000, Undefined, -Spacing - SecondsPerDay),
       Run("Run", 5000, 1500, Num(1500), -2 * Spacing),
       Run("Run", 5000, 1500, Num(1600), -3 * Spacing),
       Run("Run", 5000, 1500, Num(1400), -4 * Spacing) >>

\* the subsequence of s at the indices in S, in order
RECURSIVE Pick(_, _, _)
Pick(s, S, i) ==
    IF i > Len(s) THEN <<>>
    ELSE IF i \in S THEN <<s[i]>> \o Pick(s, S, i + 1)
    ELSE Pick(s, S, i + 1)

\* GET /athlete/activities answers with at most MaxActs of them, most
\* recent first
ActLists ==
    {Pick(StravaActs, S, 1) :
        S \in {T \in SUBSET (1..Len(StravaActs)) : Cardinality(T) <= MaxActs}}

Requests ==
    [user : {Undefined}, session : {Undefined},
     header : {Undefined, Str(""), Str("u1"), Str("ghost")},
     distance_km : {Undefined, Str("10"), Str("abc"), Str("0"), Str("-3"),
                    Str("1e306"), Str("Infinity"), Str("")}]
    \cup
    [user : {Undefined, Str("u1")}, session : {Undefined, Str("ghost")},
     header : {Str("ghost")}, distance_km : {Str("abc")}]

Roundoff == [det : -MaxUlps..MaxUlps, n0 : {1}, n1 : {-1, 1}, rt : {0}]

\* the residues of the round trip through Math.log and Math.exp
RoundTrip ==
    [det : {0}, n0 : {0}, n1 : {0}, rt : -MaxRoundTripUlps..MaxRoundTripUlps]

\* the exact determinant is zero exactly when all points have one log-distance
ExactlySingular(points) ==
    \A i, j \in 1..Len(points) : Log(points[i].distance) = Log(points[j].distance)

\* the points lie on one line in log-log space: the exact residuals are
\* all zero, and rmseLog is what rounding leaves of them, which is less
\* than the spacing of doubles at Math.log(predSec)
ExactlyCollinear(points) ==
    \A i, j, k \in 1..Len(points) :
        (Log(points[j].distance) - Log(points[i].distance))
          * (Log(points[k].movingTime) - Log(points[i].movingTime))
        = (Log(points[k].distance) - Log(points[i].distance))
          * (Log(points[j].movingTime) - Log(points[i].movingTime))

\* the residues that can make a difference for points that reach the fit:
\* those of the determinant for an exactly singular system, those of the
\* round trip for an exact fit
RoundoffAt(points) ==
    IF ExactlySingular(points) THEN Roundoff
    ELSE IF ExactlyCollinear(points) THEN RoundTrip
    ELSE {NoRoundoff}

\* the residues that can make a difference for these activities: none unless
\* the fit is reached
RoundoffFor(as) ==
    LET pts0 == Normalize(as)
        pts1 == PauseFilter(pts0)
        pts2 == OutlierFilter(pts1)
    IN  IF ~TooFew(pts0) /\ ~TooFew(pts1) /\ ~TooFew(pts2)
        THEN RoundoffAt(pts2) ELSE {NoRoundoff}

\* the residues for each answer of Strava, as an explicit table
Residues == [as \in ActLists |-> RoundoffFor(as)] @@ <<>>

\* the readings of the clock
Clock == {k * HalfLifeSecs : k \in 0..MaxTicks}

NoRequest == [user |-> Undefined, session |-> Undefined, header |-> Undefined,
              distance_km |-> Undefined]

Init ==
    /\ users = [u \in {"u1"} |->
                  [id |-> u, accessToken |-> 0, refreshToken |-> 0,
                   expiresAt |-> TokenLifetime]]
    /\ now = 0
    /\ pc = "idle"
    /\ req = NoRequest
    /\ user = Null
    /\ data = Null
    /\ token = Null
    /\ acts = <<>>
    /\ pts = <<>>
    /\ fitRo = NoRoundoff
    /\ calls = <<>>
    /\ res = NoResponse

\* the handler answers and ends
Reply(r) ==
    /\ res' = r
    /\ pc' = "done"

\* a variant of Return whose answer depends on the access token in use
ReturnByToken(out) ==
    /\ pts' = out.pts
    /\ Reply(IF token = Num(0) THEN out.res ELSE FitFailed)

\* the handler returns from lines 361-409 with its points as they are
Return(out) ==
    /\ pts' = out.pts
    /\ Reply(out.res)

\* a variant of Receive that issues the user lookup before it validates
ReceiveLookupFirst(r) ==
    /\ pc = "idle"
    /\ req' = r
    /\ calls' = <<"findUnique">>
    /\ UNCHANGED <<users, now, user, data, token, acts, pts, fitRo>>
    /\ IF getUserId(r) = Null
       THEN Reply(Response(401, ErrorBody("Unauthorized")))
       ELSE IF InvalidTarget(TargetKm(r))
       THEN Reply(Response(400, ErrorBody("Invalid distance_km")))
       ELSE /\ pc' = "findUnique"
            /\ res' = NoResponse

\* lines 348-357: up to the first await (prisma.user.findUnique)
Receive(r) ==
    /\ pc = "idle"
    /\ req' = r
    /\ UNCHANGED <<users, now, user, data, token, acts, pts, fitRo>>
    /\ IF getUserId(r) = Null
       THEN Reply(Response(401, ErrorBody("Unauthorized"))) /\ calls' = <<>>
       ELSE IF InvalidTarget(TargetKm(r))
       THEN Reply(Response(400, ErrorBody("Invalid distance_km"))) /\ calls' = <<>>
       ELSE /\ calls' = <<"findUnique">>
            /\ pc' = "findUnique"
            /\ res' = NoResponse

\* lines 236-242: findUnique resolves
FindUniqueReturns ==
    /\ pc = "findUnique"
    /\ UNCHANGED <<users, now, req, data, acts, pts, fitRo>>
    /\ LET id == getUserId(req).str
       IN  IF id \notin DOMAIN users
           THEN \* throw new Error("User not found"), caught at line 410
                /\ Reply(ServerError)
                /\ UNCHANGED <<user, token, calls>>
           ELSE /\ res' = NoResponse
                /\ IF users[id].expiresAt - now > 60
                   THEN /\ user' = Null
                        /\ token' = Num(users[id].accessToken)
                        /\ calls' = Append(calls, "getActivities")
                        /\ pc' = "getActivities"
                   ELSE /\ user' = users[id]
                        /\ token' = token
                        /\ calls' = Append(calls, "refreshAccessToken")
                        /\ pc' = "refresh"

\* lines 242-250: Strava answers the refresh; prisma.user.update is issued
RefreshReturns(withRefreshToken) ==
    /\ pc = "refresh"
    /\ data' = [access_token |-> user.accessToken + 1,
                refresh_token |-> IF withRefreshToken
                                  THEN Num(user.refreshToken + 1) ELSE Undefined,
                expires_at |-> now + TokenLifetime]
    /\ calls' = Append(calls, "update")
    /\ pc' = "update"
    /\ UNCHANGED <<users, now, req, user, token, acts, pts, fitRo, res>>

\* a variant of RefreshFails that calls the refresh endpoint once more
\* before giving up
RefreshFailsRetried ==
    /\ pc = "refresh"
    /\ IF Len(calls) < 3
       THEN /\ calls' = Append(calls, "refreshAccessToken")
            /\ UNCHANGED <<pc, res>>
       ELSE Reply(ServerError) /\ UNCHANGED calls
    /\ UNCHANGED <<users, now, req, user, data, token, acts, pts, fitRo>>

\* axios rejects: the catch block answers
RefreshFails ==
    /\ pc = "refresh"
    /\ Reply(ServerError)
    /\ UNCHANGED <<users, now, req, user, data, token, acts, pts, fitRo, calls>>

\* a variant of UpdateReturns that stores what the response carries as the
\* refresh token even when it carries none
UpdateReturnsOverwriting ==
    /\ pc = "update"
    /\ users' = [users EXCEPT ![user.id] =
                    [id |-> user.id,
                     accessToken |-> data.access_token,
                     refreshToken |-> IF data.refresh_token = Undefined
                                      THEN -1
                                      ELSE data.refresh_token.num,
                     expiresAt |-> data.expires_at]]
    /\ token' = Num(data.access_token)
    /\ calls' = Append(calls, "getActivities")
    /\ pc' = "getActivities"
    /\ user' = Null
    /\ data' = Null
    /\ UNCHANGED <<now, req, acts, pts, fitRo, res>>

\* lines 243-251 and 359: the row is written, getActivities is issued
UpdateReturns ==
    /\ pc = "update"
    /\ users' = [users EXCEPT ![user.id] =
                    [id |-> user.id,
                     accessToken |-> data.access_token,
                     refreshToken |-> IF data.refresh_token = Undefined
                                      THEN user.refreshToken
                                      ELSE data.refresh_token.num,
                     expiresAt |-> data.expires_at]]
    /\ token' = Num(data.access_token)
    /\ calls' = Append(calls, "getActivities")
    /\ pc' = "getActivities"
    /\ user' = Null
    /\ data' = Null
    /\ UNCHANGED <<now, req, acts, pts, fitRo, res>>

\* lines 359-409: Strava answers with the activities; the rest is synchronous
ActivitiesReturn ==
    /\ pc = "getActivities"
    /\ \E as \in ActLists : \E ro \in Residues[as] :
          /\ acts' = as
          /\ fitRo' = ro
          /\ Return(Pipeline(as, TargetKm(req), now, ro))
    /\ UNCHANGED <<users, now, req, user, data, token, calls>>

ActivitiesFail ==
    /\ pc = "getActivities"
    /\ Reply(ServerError)
    /\ UNCHANGED <<users, now, req, user, data, token, acts, pts, fitRo, calls>>

\* the request is over; the next one starts from scratch
Finish ==
    /\ pc = "done"
    /\ pc' = "idle"
    /\ req' = NoRequest
    /\ user' = Null
    /\ data' = Null
    /\ token' = Null
    /\ acts' = <<>>
    /\ pts' = <<>>
    /\ fitRo' = NoRoundoff
    /\ calls' = <<>>
    /\ res' = NoResponse
    /\ UNCHANGED <<users, now>>

\* time passes between two requests, one half-life at a time (a request
\* is short against a half-life)
Tick ==
    /\ pc = "idle"
    /\ now < MaxTicks * HalfLifeSecs
    /\ now' = now + HalfLifeSecs
    /\ UNCHANGED <<users, pc, req, user, data, token, acts, pts, fitRo, calls, res>>

Next ==
    \/ \E r \in Requests : Receive(r)
    \/ FindUniqueReturns
    \/ \E withRefreshToken \in BOOLEAN : RefreshReturns(withRefreshToken)
    \/ RefreshFails
    \/ UpdateReturns
    \/ ActivitiesReturn
    \/ ActivitiesFail
    \/ Finish
    \/ Tick

Spec == Init /\ [][Next]_vars

-----------------------------------------------------------------------------
(* The filtering stages on their own: lines 361-364, 370-374 and 379-386   *)
(* applied one after the other to an activity list, without the gates      *)
(* between them.                                                           *)

\* bounds of the inputs
MaxPauseActs == 2
MaxPaceActs == 4

\* one record, over every kind of value a field can hold
NormalizeInputs ==
    {<<a>> : a \in
        [type : {Str("Run"), Str("RUN"), Str("run"), Str("Ride"), Undefined},
         distance : {Num(-5000), Num(0), Num(500), Num(800), Num(801),
                     Num(5000), Infinity, Str("abc"), Null},
         moving_time : {Num(-1), Num(0), Num(1500), Infinity, Undefined},
         elapsed_time : {Undefined, Num(1500)},
         start_date : {Num(0), Str("not a date")}] \cup {Null}}

\* the sequences over S of length 1 .. n
SeqsUpTo(S, n) == UNION {[1..k -> S] : k \in 1..n}

\* 5 km runs in 25:00 with every kind of elapsed time: absent, null, not a
\* number, negative, zero, the moving time, the ratio 0.8 exactly, just
\* below it, and far below
PauseInputs ==
    SeqsUpTo({Run("Run", 5000, 1500, el, 0) :
                el \in {Undefined, Null, Str("abc"), Num(-100), Num(0),
                        Num(1500), Num(1875), Num(1876), Num(2500)}},
             MaxPauseActs)

\* 5 km runs at paces on and around the edges of the band about 5:00/km,
\* recent and old
PaceInputs ==
    SeqsUpTo({Run("Run", 5000, r[1], Undefined, r[2]) :
                r \in {<<749, 0>>, <<750, 0>>, <<1500, 0>>,
                       <<1500, -4 * Spacing>>, <<3000, 0>>,
                       <<3000, -4 * Spacing>>, <<3001, 0>>}},
             MaxPaceActs)

InitFilters ==
    /\ users = [u \in {"u1"} |->
                  [id |-> u, accessToken |-> 0, refreshToken |-> 0,
                   expiresAt |-> TokenLifetime]]
    /\ now = 0
    /\ pc = "normalize"
    /\ req = NoRequest
    /\ user = Null
    /\ data = Null
    /\ token = Null
    /\ acts \in NormalizeInputs \cup PauseInputs \cup PaceInputs
    /\ pts = <<>>
    /\ fitRo = NoRoundoff
    /\ calls = <<>>
    /\ res = NoResponse

\* lines 361-364
NormalizeStep ==
    /\ pc = "normalize"
    /\ pts' = Normalize(acts)
    /\ pc' = "pauseFilter"
    /\ UNCHANGED <<users, now, req, user, data, token, acts, fitRo, calls, res>>

\* lines 370-374
PauseFilterStep ==
    /\ pc = "pauseFilter"
    /\ pts' = PauseFilter(pts)
    /\ pc' = "outlierFilter"
    /\ UNCHANGED <<users, now, req, user, data, token, acts, fitRo, calls, res>>

\* lines 379-386
OutlierFilterStep ==
    /\ pc = "outlierFilter"
    /\ pts' = OutlierFilter(pts)
    /\ pc' = "filtered"
    /\ UNCHANGED <<users, now, req, user, data, token, acts, fitRo, calls, res>>

NextFilters == NormalizeStep \/ PauseFilterStep \/ OutlierFilterStep

SpecFilters == InitFilters /\ [][NextFilters]_vars

-----------------------------------------------------------------------------
(* Properties of the predict endpoint *)

\* the handler received the activities and answered from lines 361-409
Computed ==
    /\ pc = "done"
    /\ calls # <<>>
    /\ calls[Len(calls)] = "getActivities"
    /\ res # ServerError

\* how many points each stage leaves of an answer of Strava, as an explicit
\* table
Stages ==
    [as \in ActLists |->
        LET pts0 == Normalize(as)
            pts1 == PauseFilter(pts0)
            pts2 == OutlierFilter(pts1)
        IN  <<Len(pts0), Len(pts1), Len(pts2)>>] @@ <<>>

\* how many points each stage leaves of the activities received
StageCounts == Stages[acts]

\* the error message of a response, "" if it has none
ErrorOf(r) == IF "error" \in DOMAIN r.body THEN r.body.error ELSE ""

InsufficientData(r) ==
    /\ r.status = 400
    /\ ErrorOf(r) \in {"Need at least 4 valid runs",
                       "Not enough clean runs after filtering",
                       "Too many outliers removed; collect a few more steady runs"}

\* C1: with a resolved user and a valid target, the request fails with
\* InsufficientData (400) whenever some filtering stage leaves 3 points or
\* fewer, and whenever every stage leaves at least 4 (exactly 4 included) it
\* goes on to the regression on the points the last stage left and answers
\* what the regression step answers, never InsufficientData.
C1_MinimumVolume ==
    Computed =>
        LET n == StageCounts
        IN  /\ (\E k \in 1..3 : n[k] <= 3) => InsufficientData(res)
            /\ (\A k \in 1..3 : n[k] >= 4) =>
                    /\ ~InsufficientData(res)
                    /\ Len(pts) = n[3]
                    /\ res = Predict(pts, TargetKm(req), now, fitRo)

\* exactly 4 points after every stage, and the request went on to a prediction
C1_ExactlyFourProceeds ==
    /\ Computed
    /\ StageCounts = <<4, 4, 4>>
    /\ res.status = 200
    /\ res.body.used_points = 4

-----------------------------------------------------------------------------
(* Properties of the filtering stages *)

\* the k with i the k-th element of the index set K
RankIn(K, i) == Cardinality({j \in K : j <= i})

\* Number(v) is finite and greater than bound
FiniteAbove(v, bound) == IsNum(ToNumber(v)) /\ ToNumber(v).num > bound

\* the type label is "run" in some mix of cases
IsRunRecord(a) ==
    /\ a # Null
    /\ IsStr(a.type)
    /\ a.type.str \in {"run", "Run", "rUn", "ruN", "RUn", "RuN", "rUN", "RUN"}

\* a run with a finite distance above minDistance, a finite positive moving
\* time and a start date that parses
NormalizeShouldKeep(a, minDistance) ==
    /\ IsRunRecord(a)
    /\ FiniteAbove(a.distance, minDistance)
    /\ FiniteAbove(a.moving_time, 0)
    /\ IsNum(a.start_date)

\* this step leaves exactly the records to keep, in order, as points
NormalizeKeepsExactly(minDistance) ==
    LET K == {i \in 1..Len(acts) : NormalizeShouldKeep(acts[i], minDistance)}
    IN  /\ Len(pts') = Cardinality(K)
        /\ \A i \in K :
              LET p == pts'[RankIn(K, i)]
              IN  /\ p.distance = acts[i].distance.num
                  /\ p.movingTime = acts[i].moving_time.num
                  /\ p.startDate = acts[i].start_date.num

\* C2 as stated: normalization keeps a record exactly when it is a run
\* (case-insensitively) with a finite positive distance, a finite positive
\* moving time and a start time that parses.
C2_KeepsPositiveDistance ==
    [][pc = "normalize" => NormalizeKeepsExactly(0)]_vars

\* C2: normalization keeps a record exactly when it is a run
\* (case-insensitively) with a finite distance above 800 m, a finite positive
\* moving time and a start time that parses; every other record is discarded.
C2_KeepsAboveMinDistance ==
    [][pc = "normalize" => NormalizeKeepsExactly(800)]_vars

\* a run of 801 m was kept, next to the stage's input
C2_JustAboveKept ==
    /\ pc = "pauseFilter"
    /\ Len(acts) = 1
    /\ acts[1] # Null
    /\ acts[1].type = Str("RUN")
    /\ acts[1].distance = Num(801)
    /\ Len(pts) = 1
    /\ pts[1].distance = 801

\* the number of paces below q, and at most q
CountBelow(paces, q) ==
    Cardinality({i \in DOMAIN paces : RatLT(paces[i], q)})
CountAtMost(paces, q) ==
    Cardinality({i \in DOMAIN paces : RatLE(paces[i], q)})

\* the k-th smallest of the paces, by counting
KthSmallest(paces, k) ==
    CHOOSE q \in {paces[i] : i \in DOMAIN paces} :
        CountBelow(paces, q) < k /\ k <= CountAtMost(paces, q)

\* the median: the middle pace, or the mean of the two middle ones
MedianPace(paces) ==
    LET n == Len(paces)
    IN  IF n = 0 THEN Rat(0, 1)
        ELSE IF n % 2 = 1 THEN KthSmallest(paces, (n + 1) \div 2)
        ELSE RatScale(RatAdd(KthSmallest(paces, n \div 2),
                             KthSmallest(paces, n \div 2 + 1)), 1, 2)

\* med / 2 <= pace <= 2 * med
InClosedBand(pace, med) ==
    /\ pace.d * med.n <= 2 * pace.n * med.d
    /\ pace.n * med.d <= 2 * med.n * pace.d

\* this step leaves exactly the points whose pace is in the closed band
\* about the median pace of the points it was given, in order
OutlierKeepsExactly ==
    LET paces == [i \in 1..Len(pts) |-> Rat(pts[i].movingTime, pts[i].distance)]
        med == MedianPace(paces)
        K == {i \in 1..Len(pts) : InClosedBand(paces[i], med)}
    IN  /\ Len(pts') = Cardinality(K)
        /\ \A i \in K : pts'[RankIn(K, i)] = pts[i]

PauseShouldDiscard(p, positiveOnly) ==
    /\ IsNum(p.elapsedTime)
    /\ p.elapsedTime.num # 0
    /\ positiveOnly => p.elapsedTime.num > 0
    /\ RatLT(RatS(p.movingTime, p.elapsedTime.num), Rat(4, 5))

\* this step leaves exactly the points not to discard, in order
PauseKeepsExactly(positiveOnly) ==
    LET K == {i \in 1..Len(pts) : ~PauseShouldDiscard(pts[i], positiveOnly)}
    IN  /\ Len(pts') = Cardinality(K)
        /\ \A i \in K : pts'[RankIn(K, i)] = pts[i]

-----------------------------------------------------------------------------
(* Properties of the fit and of the responses *)

\* every stage left at least 4 points: pts reached the regression
ReachedRegression ==
    Computed /\ LET n == StageCounts IN \A k \in 1..3 : n[k] >= 4

\* C5: if every point that reaches the regression has the same distance and
\* the same moving time, the request fails with HTTP 500 "Model fit failed"
\* and no prediction is returned.
C5_DegenerateFitFails ==
    (/\ ReachedRegression
     /\ \A i, j \in 1..Len(pts) :
           /\ pts[i].distance = pts[j].distance
           /\ pts[i].movingTime = pts[j].movingTime)
    => res = Response(500, ErrorBody("Model fit failed"))

\* five runs of 5000 m in 1500 s reached the regression, the rounding left
\* a determinant above the guard's 1e-12, and a prediction was answered
C5_DegenerateFitAnswered ==
    /\ ReachedRegression
    /\ Len(pts) = 5
    /\ \A i \in 1..5 : pts[i].distance = 5000 /\ pts[i].movingTime = 1500
    /\ fitRo.det # 0
    /\ res.status = 200

\* the activities are 5 runs of a given distance and moving time each
FiveRuns == Len(acts) = 5 /\ \A i \in 1..5 : IsRunRecord(acts[i])

EvenlySpaced ==
    \A i \in 1..3 :
        acts[i].start_date.num - acts[i + 1].start_date.num
            = acts[i + 1].start_date.num - acts[i + 2].start_date.num

\* 25:00 predicted for 5 km, no residual, both bounds on the prediction
Predicts2500 ==
    /\ res.status = 200
    /\ res.body.distance_km = Num(5)
    /\ res.body.prediction_seconds = Num(1500 * SecScale)
    /\ res.body.prediction_time = "25:00"
    /\ res.body.model.rmse_log = 0
    /\ res.body.confidence_low_time = "25:00"
    /\ res.body.confidence_high_time = "25:00"

C7_FailureStatus ==
    pc = "done" =>
        /\ res.status # 200 =>
              /\ DOMAIN res.body = {"error"}
              /\ ErrorOf(res) # ""
        /\ getUserId(req) = Null => res.status = 401
        /\ (getUserId(req) # Null /\ InvalidTarget(TargetKm(req)))
              => res.status = 400
        /\ Computed =>
              LET n == StageCounts
              IN  /\ (\E k \in 1..3 : n[k] < 4) => res.status = 400
                  /\ ((\A k \in 1..3 : n[k] >= 4)
                        /\ fitPowerLaw(pts, now, fitRo) = Null)
                        => res.status = 500
        /\ ErrorOf(res) = "Unauthorized" => res.status = 401
        /\ ErrorOf(res) = "Invalid distance_km" => res.status = 400
        /\ InsufficientData(res) \/ (ErrorOf(res) \notin
              {"Need at least 4 valid runs",
               "Not enough clean runs after filtering",
               "Too many outliers removed; collect a few more steady runs"})
        /\ ErrorOf(res) = "Model fit failed" => res.status = 500

\* the regression was reached, the fit failed and the answer was a 500
C7_FitFailureAnswered ==
    /\ ReachedRegression
    /\ fitPowerLaw(pts, now, fitRo) = Null
    /\ res.status = 500
    /\ ErrorOf(res) = "Model fit failed"

\* C8: a predict request whose user identity cannot be resolved to a user
\* fails with HTTP 401, both when the request carries no identity and when
\* the identity it carries (with a valid target distance) matches no stored
\* user.
C8_UnresolvedIsUnauthorized ==
    (/\ pc = "done"
     /\ \/ getUserId(req) = Null
        \/ /\ ~InvalidTarget(TargetKm(req))
           /\ getUserId(req).str \notin DOMAIN users)
    => res.status = 401

\* an identity that matches no stored user, with a valid target distance,
\* was answered 500 "Server error"
C8_UnknownUserServerError ==
    /\ pc = "done"
    /\ getUserId(req) = Str("ghost")
    /\ ~InvalidTarget(TargetKm(req))
    /\ res = Response(500, ErrorBody("Server error"))

\* C9: the InsufficientData message names the first stage that leaves fewer
\* than 4 points: "Need at least 4 valid runs" after normalization, "Not
\* enough clean runs after filtering" after the pause filter, "Too many
\* outliers removed; collect a few more steady runs" after the outlier
\* filter; the three messages differ, and no later stage's message is
\* given when an earlier stage already left fewer than 4.
C9_FirstFailingStageMessage ==
    /\ Cardinality({NeedValidRuns, NotEnoughClean, TooManyOutliers}) = 3
    /\ Computed =>
          LET n == StageCounts
          IN  /\ n[1] < 4 => ErrorOf(res) = "Need at least 4 valid runs"
              /\ (n[1] >= 4 /\ n[2] < 4)
                    => ErrorOf(res) = "Not enough clean runs after filtering"
              /\ (n[1] >= 4 /\ n[2] >= 4 /\ n[3] < 4)
                    => ErrorOf(res) =
                         "Too many outliers removed; collect a few more steady runs"
              /\ (\A k \in 1..3 : n[k] >= 4) => ~InsufficientData(res)

\* normalization left 4 points or more, the pause filter fewer, and the
\* pause filter's message was given
C9_PauseStageNamed ==
    /\ Computed
    /\ StageCounts[1] >= 4
    /\ StageCounts[2] < 4
    /\ res = Response(400, ErrorBody("Not enough clean runs after filtering"))

\* a time as the endpoint formats it: no NaN and no Infinity in it
WellFormedTime(t) ==
    t \notin {"NaN:NaN", "Infinity:NaN:NaN", "NaN:NaN/km", "Infinity:NaN/km"}

\* a complete prediction: every field, each with a defined value, no error
CompletePrediction(r) ==
    /\ r.status = 200
    /\ DOMAIN r.body = {"distance_km", "prediction_seconds", "prediction_time",
                        "pace_per_km", "confidence_low_time",
                        "confidence_high_time", "model", "used_points"}
    /\ DOMAIN r.body.model = {"log_a", "b", "rmse_log"}
    /\ r.body.distance_km \notin {Null, Undefined}
    /\ r.body.prediction_seconds \notin {Null, Undefined}
    /\ WellFormedTime(r.body.prediction_time)
    /\ WellFormedTime(r.body.pace_per_km)
    /\ WellFormedTime(r.body.confidence_low_time)
    /\ WellFormedTime(r.body.confidence_high_time)

\* an error and nothing else
ErrorOnly(r) == r.status # 200 /\ DOMAIN r.body = {"error"}

\* C10: every response of the predict endpoint is either a complete
\* prediction, with every field holding a defined value and no error field,
\* or an error that carries only the error message; never a mix.
C10_CompleteOrError ==
    pc = "done" => CompletePrediction(res) \/ ErrorOnly(res)

\* distance_km=1e306 was answered 200 with prediction_seconds null
C10_NullPredictionAnswered ==
    /\ pc = "done"
    /\ req.distance_km = Str("1e306")
    /\ res.status = 200
    /\ res.body.prediction_seconds = Null
    /\ res.body.prediction_time = "Infinity:NaN:NaN"

-----------------------------------------------------------------------------
(* C11 *)

\* lines 394-398: low <= predicted <= high, as the handler holds them
OrderedAround(predSec, rmse, rt) ==
    /\ DoubleLE(lowSec(predSec, rmse, rt), predSec)
    /\ DoubleLE(predSec, highSec(predSec, rmse, rt))

\* lines 392-398 for a fit
OrderedFor(fit, targetKm, rt) ==
    OrderedAround(predictSeconds(fit.logA, fit.b, Times1000(targetKm)),
                  fit.rmseLog, rt)

\* a prediction was answered
Predicted == Computed /\ res.status = 200

\* C11: in every successful prediction the confidence bounds satisfy
\* low <= predicted <= high, the bounds being exp(log(predicted) - rmseLog)
\* and exp(log(predicted) + rmseLog)
C11_BoundsOrdered ==
    Predicted =>
        OrderedFor(fitPowerLaw(pts, now, fitRo), TargetKm(req), fitRo.rt)

\* a prediction from an exact fit was answered, with a lower bound that the
\* round trip left above the predicted time
C11_ExactFitAnswered ==
    /\ Predicted
    /\ res.body.model.rmse_log = 0
    /\ res.body.confidence_low_time = res.body.prediction_time
    /\ fitRo.rt > 0

-----------------------------------------------------------------------------
(* C12 *)

-----------------------------------------------------------------------------
(* recencyWeight and fitPowerLaw on their own: lines 254-258 and 275-303   *)
(* applied to a list of points at a clock reading.                         *)

\* a variant of recencyWeightValue without the clamp of line 255
recencyWeightUnclamped(start, tnow) ==
    ExpOf(RatScale(Rat(tnow - start, SecondsPerDay), -Ln2, HALF_LIFE_DAYS))

\* lines 255-257: Math.pow(0.5, days / HALF_LIFE_DAYS) as the double it is,
\* e ^ (-ln 2 * days / HALF_LIFE_DAYS), with days = max(0, now - start) in
\* days; recencyWeight above is the same number in 1 / WeightScale
recencyWeightValue(start, tnow) ==
    ExpOf(RatScale(Rat(Max(0, tnow - start), SecondsPerDay), -Ln2,
                   HALF_LIFE_DAYS))

\* v / 2
Half(v) == IF IsFin(v) THEN ExpOf(RatAdd(v.lg, RatInt(-Ln2))) ELSE v

\* a < b on doubles
DoubleLT(a, b) == DoubleLE(a, b) /\ a # b

\* bounds of the inputs
MaxFitPoints == 3

Point(d, mt, start) ==
    [distance |-> d, movingTime |-> mt, elapsedTime |-> Undefined,
     startDate |-> start]

\* runs on one line of slope 1 in log-log space at three distances, one off
\* that line, three on a steeper line; dated after the clock's first
\* reading, at it, a day, one half-life and one half-life and a day before
\* it, and long before it
FitPoints ==
    {Point(5000, 1500, 0), Point(5000, 1500, SecondsPerDay),
     Point(5000, 1500, -SecondsPerDay), Point(5000, 1500, -HalfLifeSecs),
     Point(10000, 3000, -HalfLifeSecs - SecondsPerDay),
     Point(10000, 4200, 0), Point(20000, 6000, -4 * HalfLifeSecs),
     Point(20000, 11143, -5 * HalfLifeSecs)}

FitInputs == {<<>>} \cup SeqsUpTo(FitPoints, MaxFitPoints)

InitFit ==
    /\ users = [u \in {"u1"} |->
                  [id |-> u, accessToken |-> 0, refreshToken |-> 0,
                   expiresAt |-> TokenLifetime]]
    /\ now \in Clock
    /\ pc = "weigh"
    /\ req = NoRequest
    /\ user = Null
    /\ data = Null
    /\ token = Null
    /\ acts = <<>>
    /\ pts \in FitInputs
    /\ fitRo \in IF Len(pts) < 2 THEN {NoRoundoff} ELSE RoundoffAt(pts)
    /\ calls = <<>>
    /\ res = NoResponse

\* line 281: const w = pts.map(p => recencyWeight(p.startDate, now))
WeighStep ==
    /\ pc = "weigh"
    /\ data' = [w |-> [i \in 1..Len(pts) |->
                         recencyWeightValue(pts[i].startDate, now)]]
    /\ pc' = "fit"
    /\ UNCHANGED <<users, now, req, user, token, acts, pts, fitRo, calls, res>>

\* lines 275-303
FitStep ==
    /\ pc = "fit"
    /\ res' = [fit |-> fitPowerLaw(pts, now, fitRo)]
    /\ pc' = "fitted"
    /\ UNCHANGED <<users, now, req, user, data, token, acts, pts, fitRo, calls>>

NextFit == WeighStep \/ FitStep

SpecFit == InitFit /\ [][NextFit]_vars

-----------------------------------------------------------------------------
(* C13 *)

\* the weights have been taken
Weighed == pc \in {"fit", "fitted"}

\* the weight 0.5 ^ 0 = 1
One == Fin(RatInt(0))

\* C13 as stated: the weight of a run is 0.5 ^ (age_days / 60): a run 60
\* days old has exactly half the weight of a run dated now, and of any two
\* runs the older one has strictly smaller weight.
C13_OlderWeighsLess ==
    Weighed =>
        \A i, j \in 1..Len(pts) :
            /\ (pts[i].startDate = now - HalfLifeSecs /\ pts[j].startDate = now)
                  => data.w[i] = Half(data.w[j])
            /\ pts[i].startDate < pts[j].startDate
                  => DoubleLT(data.w[i], data.w[j])

\* C13: the weight of a run is 0.5 ^ (max(0, age_days) / 60): a run 60 days
\* old has exactly half the weight of a run dated now; of any two runs of
\* which the younger is not dated after the request, the older one has
\* strictly smaller weight; a run dated at or after the request has weight 1.
C13_OlderPastRunWeighsLess ==
    Weighed =>
        \A i, j \in 1..Len(pts) :
            /\ (pts[i].startDate = now - HalfLifeSecs /\ pts[j].startDate = now)
                  => data.w[i] = Half(data.w[j])
            /\ (pts[i].startDate < pts[j].startDate /\ pts[j].startDate <= now)
                  => DoubleLT(data.w[i], data.w[j])
            /\ pts[j].startDate >= now => data.w[j] = One

\* a run dated at the request and one dated a day after it were weighed the
\* same, and a run 60 days old half of that
C13_FutureRunWeighedAsNew ==
    /\ Weighed
    /\ Len(pts) = 3
    /\ pts[1].startDate = now - HalfLifeSecs
    /\ pts[2].startDate = now
    /\ pts[3].startDate = now + SecondsPerDay
    /\ data.w[2] = data.w[3]
    /\ data.w[1] = Half(data.w[2])

-----------------------------------------------------------------------------
(* C14 *)

\* the request has been received and answered
Answered == pc = "done" /\ res # NoResponse

\* the texts of distance_km that parse to a finite, strictly positive number
PositiveTexts == {"5", "5.0", "10", "1e306"}

\* the answer for an invalid target
InvalidDistance == Response(400, ErrorBody("Invalid distance_km"))

\* the target was accepted: the handler went on to look the user up
Accepted == calls # <<>> /\ calls[1] = "findUnique" /\ res # InvalidDistance

\* the target of the request is 5 when distance_km is absent, and a value
\* that is not a finite positive number is answered 400 "Invalid
\* distance_km", every other one accepted
TargetValidated ==
    /\ req.distance_km = Undefined
          => Accepted /\ (res.status = 200 => res.body.distance_km = Num(5))
    /\ (req.distance_km # Undefined /\ req.distance_km.str \notin PositiveTexts)
          => res = InvalidDistance /\ calls = <<>>
    /\ (req.distance_km # Undefined /\ req.distance_km.str \in PositiveTexts)
          => Accepted /\ (res.status = 200 =>
                res.body.distance_km = StringToNumber(req.distance_km.str))

\* C14 as stated: the target distance is distance_km, 5.0 when absent; a
\* value that does not parse to a finite, strictly positive number is
\* rejected with HTTP 400 "Invalid distance_km", every finite positive value
\* is accepted.
C14_TargetValidated == Answered => TargetValidated

\* C14: for a request that carries a user identity, the target distance is
\* distance_km, 5.0 when absent; a value that does not parse to a finite,
\* strictly positive number is rejected with HTTP 400 "Invalid distance_km",
\* every finite positive value is accepted.  A request without identity is
\* answered 401 whatever its distance_km.
C14_IdentifiedTargetValidated ==
    Answered =>
        IF getUserId(req) # Null THEN TargetValidated
        ELSE res = Response(401, ErrorBody("Unauthorized"))

\* an identified request with an empty distance_km was answered 400
C14_EmptyRejected ==
    /\ Answered
    /\ getUserId(req) = Str("u1")
    /\ req.distance_km = Str("")
    /\ res = InvalidDistance

-----------------------------------------------------------------------------
(* C15 *)

\* C15: in every successful prediction used_points is the number of points
\* that survived normalization, the pause filter and the outlier filter and
\* were passed to the regression; it is at least 4 and at most the number of
\* activity records received.
C15_UsedPointsCounted ==
    Predicted =>
        /\ res.body.used_points = Len(pts)
        /\ pts = OutlierFilter(PauseFilter(Normalize(acts)))
        /\ res.body.used_points >= 4
        /\ res.body.used_points <= Len(acts)

\* a prediction was answered from four of five activities received
C15_FourOfFiveUsed ==
    /\ Predicted
    /\ Len(acts) = 5
    /\ res.body.used_points = 4
    /\ Len(pts) = 4

-----------------------------------------------------------------------------
(* C16 *)

\* the data-model invariant of a point: distance and moving time finite and
\* strictly positive (the numbers of the model are finite), the elapsed
\* time, when present, not below the moving time
WellFormedPoint(p) ==
    /\ p.distance > 0
    /\ p.movingTime > 0
    /\ p.elapsedTime # Undefined => p.elapsedTime.num >= p.movingTime

\* C16: every point that reaches the regression has a finite, strictly
\* positive distance and moving time and an elapsed time that, when present,
\* is greater than or equal to its moving time.
C16_RegressionPointsWellFormed ==
    ReachedRegression => \A i \in 1..Len(pts) : WellFormedPoint(pts[i])

\* a prediction was answered from points one of which has an elapsed time
\* below its moving time
C16_ShortElapsedUsed ==
    /\ Predicted
    /\ res.body.used_points = Len(pts)
    /\ \E i \in 1..Len(pts) :
          /\ pts[i].elapsedTime = Num(1400)
          /\ pts[i].movingTime = 1500

-----------------------------------------------------------------------------
(* C17 *)

\* two digits
TwoDigits(n) == IF n < 10 THEN "0" \o ToString(n) ELSE ToString(n)

\* H:MM:SS of a number of seconds, M:SS below one hour
HMS(h, m, s) ==
    IF h = 0 THEN ToString(m) \o ":" \o TwoDigits(s)
    ELSE ToString(h) \o ":" \o TwoDigits(m) \o ":" \o TwoDigits(s)

\* text renders the time t, held in 1 / SecScale: it is H:MM:SS of t rounded
\* to the second, 0:00 for a negative t
TimeRendered(text, t) ==
    /\ IsNum(t)
    /\ \/ t.num < 0 /\ text = "0:00"
       \/ /\ t.num >= 0
          /\ text = HMS(RoundDiv(t.num, SecScale) \div 3600,
                        (RoundDiv(t.num, SecScale) % 3600) \div 60,
                        RoundDiv(t.num, SecScale) % 60)

\* text renders a pace as minutes:seconds/km, the seconds in two digits
PaceRendered(text) ==
    \E mm \in 0..MaxPaceMinutes : \E ss \in 0..59 :
        text = ToString(mm) \o ":" \o TwoDigits(ss) \o "/km"

\* the three times and the pace of a success body are rendered
BodyRendered(body, predSec, rmse, rt) ==
    /\ TimeRendered(body.prediction_time, Seconds(predSec))
    /\ TimeRendered(body.confidence_low_time,
                    Seconds(lowSec(predSec, rmse, rt)))
    /\ TimeRendered(body.confidence_high_time,
                    Seconds(highSec(predSec, rmse, rt)))
    /\ PaceRendered(body.pace_per_km)

RenderedFor(body, fit, targetKm, rt) ==
    BodyRendered(body, predictSeconds(fit.logA, fit.b, Times1000(targetKm)),
                 fit.rmseLog, rt)

\* C17: the predicted time and the two bounds are rendered as H:MM:SS, the
\* hour field omitted when zero, minutes after an hour and seconds in two
\* digits 00..59, the value being the number of seconds rounded (0:00 when
\* negative); the pace is rendered as minutes:seconds followed by "/km".
C17_TimesRendered ==
    Predicted =>
        RenderedFor(res.body, fitPowerLaw(pts, now, fitRo), TargetKm(req),
                    fitRo.rt)

\* a prediction was answered whose pace is not minutes and seconds
C17_PaceNotANumber ==
    /\ Predicted
    /\ res.body.pace_per_km = "Infinity:NaN/km"
    /\ res.body.confidence_high_time = "Infinity:NaN:NaN"

-----------------------------------------------------------------------------
(* The run planner: GET /weather maps WeatherAPI's hours (index.ts         *)
(* 155-165), the app receives them as JSON and scores each hour            *)
(* (run-planner.tsx 102-125).  Here acts is WeatherAPI's hour array, pts   *)
(* the array of the server and then of the app, res the scores.            *)

Min(a, b) == IF a <= b THEN a ELSE b

\* v || 0 for a number, null or undefined
OrZero(v) == IF IsNum(v) /\ v.num # 0 THEN v ELSE Num(0)

\* lines 156-164: one hour of the response; pop is kept in hundredths.  ts
\* is left out: scoreHour does not read it
MapHour(h) ==
    [temp_c |-> ToNumber(h.temp_c),
     humidity |-> ToNumber(h.humidity),
     wind_kph |-> ToNumber(h.wind_kph),
     pop |-> Num(Max(0, Min(100, OrZero(ToNumber(h.chance_of_rain)).num))),
     uv |-> IF h.uv \in {Null, Undefined} THEN Num(0) ELSE ToNumber(h.uv),
     aqi |-> Null]

\* res.json on the server, r.json() in the app: each number goes through
\* JSON.stringify
JsonHour(h) == [f \in DOMAIN h |-> JsonNumber(h[f])]

\* penalties are kept in 1 / PenaltyScale
PenaltyScale == 600

\* lines 103-120; the weights are in hundredths.  null counts as 0 in
\* arithmetic, undefined and NaN make the result NaN
scoreHour(h) ==
    LET temp == ToNumber(h.temp_c)
        humidity == ToNumber(h.humidity)
        wind == ToNumber(h.wind_kph)
        tempPenalty == Min(PenaltyScale,
                           (Abs(temp.num - 11) * PenaltyScale) \div 15)
        humidityPenalty == Max(0, ((humidity.num - 50) * PenaltyScale) \div 50)
        windPenalty == Min(PenaltyScale, (wind.num * PenaltyScale) \div 30)
        rainPenalty == Min(PenaltyScale,
                           (OrZero(h.pop).num * PenaltyScale) \div 100)
        uvPenalty == Min(PenaltyScale, (OrZero(h.uv).num * PenaltyScale) \div 8)
        aqiPenalty == IF h.aqi \notin {Null, Undefined}
                      THEN Min(PenaltyScale,
                               (ToNumber(h.aqi).num * PenaltyScale) \div 150)
                      ELSE PenaltyScale \div 5
        penalty == 35 * tempPenalty + 15 * humidityPenalty + 15 * windPenalty
                   + 20 * aqiPenalty + 10 * rainPenalty + 5 * uvPenalty
    IN  IF ~IsNum(temp) \/ ~IsNum(humidity) \/ ~IsNum(wind)
           \/ h.pop = NaN \/ h.uv = NaN \/ h.aqi = NaN
        THEN NaN
        ELSE Num(RoundDiv(100 * (100 * PenaltyScale
                                 - Max(0, Min(100 * PenaltyScale, penalty))),
                          100 * PenaltyScale))

\* one hour as WeatherAPI may send it: each field a number in or out of its
\* usual range, absent, or not a number
RawHours ==
    [temp_c : {Undefined, Str("abc"), Num(-30), Num(11), Num(26)},
     humidity : {Undefined, Num(0), Num(50), Num(80), Num(400)},
     wind_kph : {Undefined, Num(-10), Num(15), Num(90)},
     chance_of_rain : {Undefined, Str("abc"), Num(-20), Num(50), Num(250)},
     uv : {Undefined, Null, Str("abc"), Num(4), Num(11)}]

InitScore ==
    /\ users = [u \in {"u1"} |->
                  [id |-> u, accessToken |-> 0, refreshToken |-> 0,
                   expiresAt |-> TokenLifetime]]
    /\ now = 0
    /\ pc = "mapHours"
    /\ req = NoRequest
    /\ user = Null
    /\ data = Null
    /\ token = Null
    /\ acts \in {<<h>> : h \in RawHours}
    /\ pts = <<>>
    /\ fitRo = NoRoundoff
    /\ calls = <<>>
    /\ res = NoResponse

\* index.ts 155-165: hoursRaw.map(...)
MapHoursStep ==
    /\ pc = "mapHours"
    /\ pts' = [i \in 1..Len(acts) |-> MapHour(acts[i])]
    /\ pc' = "sendHours"
    /\ UNCHANGED <<users, now, req, user, data, token, acts, fitRo, calls, res>>

\* index.ts 186 and run-planner.tsx 83-86: res.json, r.json(), setHours
SendHoursStep ==
    /\ pc = "sendHours"
    /\ pts' = [i \in 1..Len(pts) |-> JsonHour(pts[i])]
    /\ pc' = "scoreHours"
    /\ UNCHANGED <<users, now, req, user, data, token, acts, fitRo, calls, res>>

\* run-planner.tsx 122: hours.map((h) => ({ ...h, score: scoreHour(h) }))
ScoreHoursStep ==
    /\ pc = "scoreHours"
    /\ res' = [score |-> [i \in 1..Len(pts) |-> scoreHour(pts[i])]]
    /\ pc' = "scored"
    /\ UNCHANGED <<users, now, req, user, data, token, acts, pts, fitRo, calls>>

NextScore == MapHoursStep \/ SendHoursStep \/ ScoreHoursStep

SpecScore == InitScore /\ [][NextScore]_vars

-----------------------------------------------------------------------------
(* C18 *)

\* C18: the score of every forecast hour is an integer between 0 and 100
\* inclusive, for any hour received from the weather endpoint, those
\* included whose temperature, humidity, wind, rain chance, UV or air
\* quality is missing or not a number.
C18_ScoreInRange ==
    pc = "scored" =>
        \A i \in 1..Len(pts) :
            IsNum(res.score[i]) /\ res.score[i].num \in 0..100

\* an hour WeatherAPI sent without temperature, humidity, wind and UV and
\* with a rain chance that is not a number was scored 70
C18_EmptyHourScored ==
    /\ pc = "scored"
    /\ acts[1].temp_c = Undefined
    /\ acts[1].humidity = Undefined
    /\ acts[1].wind_kph = Undefined
    /\ acts[1].chance_of_rain = Str("abc")
    /\ acts[1].uv = Undefined
    /\ pts[1].temp_c = Null
    /\ res.score[1] = Num(70)

-----------------------------------------------------------------------------
(* C19 *)

\* line 281 and line 278: the weights and the log-distances of the points
WeightsAt(points, tnow) ==
    [i \in 1..Len(points) |-> recencyWeight(points[i].startDate, tnow)]

LogDistances(points) == [i \in 1..Len(points) |-> Log(points[i].distance)]

LogTimes(points) == [i \in 1..Len(points) |-> Log(points[i].movingTime)]

\* the weighted sum of the products of two sequences
SumW(w, a, b) == SumSeq([i \in DOMAIN w |-> w[i] * a[i] * b[i]])

Ones(w) == [i \in DOMAIN w |-> 1]

\* det = sw * swxx - swx * swx, exactly
ExactDet(w, x) ==
    SumSeq(w) * SumW(w, x, x) - SumW(w, x, Ones(w)) * SumW(w, x, Ones(w))

\* the determinant the code computes is below the guard's 1e-12 in absolute
\* value: a non-zero exact determinant is at least 1 / (WeightScale *
\* LogScale) ^ 2 here, and for a zero one the code holds the residue
DetBelowGuard(det, ro) == det = 0 /\ Abs(ro.det) * DetUlp < DetEps

\* the fit must fail: fewer than 2 points, a determinant below the guard
\* (no determinant is non-finite), or a zero sum of weights
MustFail(points, tnow, ro) ==
    \/ Len(points) < 2
    \/ DetBelowGuard(ExactDet(WeightsAt(points, tnow), LogDistances(points)), ro)
    \/ SumSeq(WeightsAt(points, tnow)) = 0

\* C19: the fit fails exactly when the determinant det = sw * swxx - swx^2
\* it computes is non-finite or below 1e-12 in absolute value, or sw = 0, or
\* fewer than 2 points are supplied; in every other case it returns logA, b
\* and rmseLog.
C19_FailsExactlyOnGuard ==
    pc = "fitted" =>
        IF MustFail(pts, now, fitRo) THEN res.fit = Null
        ELSE DOMAIN res.fit = {"logA", "b", "rmseLog"}

\* two runs of one distance, whose determinant the rounding left at three
\* units in the last place, below the guard: the fit failed
C19_SmallResidueFailed ==
    /\ pc = "fitted"
    /\ Len(pts) = 2
    /\ pts[1].distance = pts[2].distance
    /\ fitRo.det = 3
    /\ SumSeq(WeightsAt(pts, now)) > 0
    /\ res.fit = Null

-----------------------------------------------------------------------------
(* C20 *)

\* logA * s1 + b * s2 = s3
SolvesEquation(fit, s1, s2, s3) ==
    RatAdd(RatScale(fit.logA, s1, 1), RatScale(fit.b, s2, 1)) = RatInt(s3)

\* the two normal equations over the weights w, x = log(distance) and
\* y = log(movingTime)
SolvesNormalEquations(fit, w, x, y) ==
    /\ SolvesEquation(fit, SumSeq(w), SumW(w, x, Ones(w)), SumW(w, y, Ones(w)))
    /\ SolvesEquation(fit, SumW(w, x, Ones(w)), SumW(w, x, x), SumW(w, x, y))

\* the fit is the line through the points, without residual
IsLineThrough(fit, x, y) ==
    /\ \A i \in DOMAIN x : RatAdd(fit.logA, RatScale(fit.b, x[i], 1)) = RatInt(y[i])
    /\ fit.rmseLog = 0

\* C20: when the fit succeeds, logA and b solve the weighted normal
\* equations logA * sw + b * swx = swy and logA * swx + b * swxx = swxy;
\* for points on one line in log-log space with at least two distinct
\* distances the fit is that line and rmseLog = 0, whatever the weights.
C20_SolvesNormalEquations ==
    (pc = "fitted" /\ res.fit # Null) =>
        /\ SolvesNormalEquations(res.fit, WeightsAt(pts, now),
                                 LogDistances(pts), LogTimes(pts))
        /\ (ExactlyCollinear(pts) /\ ~ExactlySingular(pts))
              => IsLineThrough(res.fit, LogDistances(pts), LogTimes(pts))

\* three runs of one distance and one moving time were fitted, the rounding
\* having left a determinant above the guard, with a slope and an intercept
\* that do not solve the first normal equation
C20_ResidueFitReturned ==
    /\ pc = "fitted"
    /\ Len(pts) = 3
    /\ \A i \in 1..3 : pts[i].distance = 5000 /\ pts[i].movingTime = 1500
    /\ fitRo.det >= 5
    /\ res.fit # Null
    /\ ~SolvesEquation(res.fit, SumSeq(WeightsAt(pts, now)),
                       SumW(WeightsAt(pts, now), LogDistances(pts),
                            Ones(pts)),
                       SumW(WeightsAt(pts, now), LogTimes(pts), Ones(pts)))

-----------------------------------------------------------------------------
(* C21 *)

\* how many times an external call was issued in the request being handled
Attempts(name) == Cardinality({i \in DOMAIN calls : calls[i] = name})

\* an error response was sent
ErrorSent == pc = "done" /\ res.status # 200

\* C21: every error of a predict request is terminal and nothing is retried:
\* within one request the token refresh and the activity fetch are each
\* attempted at most once, and once an error response has been sent the
\* handler issues no further external call and sends no second response.
C21_ErrorsTerminal ==
    /\ [](Attempts("refreshAccessToken") <= 1 /\ Attempts("getActivities") <= 1)
    /\ [][ErrorSent => (Len(calls') <= Len(calls) /\ res' \in {res, NoResponse})]_vars

\* the refresh failed and the request was answered 500 after one attempt
C21_RefreshErrorSent ==
    /\ ErrorSent
    /\ res = ServerError
    /\ calls = <<"findUnique", "refreshAccessToken">>

-----------------------------------------------------------------------------
(* C22 *)

\* C22: the handler validates before it touches anything external: a request
\* with no user identity is answered 401 and one with an invalid distance_km
\* 400 with no database lookup, token refresh or Strava call made; the
\* identity check comes first, so a request with neither an identity nor a
\* valid distance is answered 401.
C22_ValidatedBeforeExternal ==
    Answered =>
        /\ getUserId(req) = Null
              => /\ res = Response(401, ErrorBody("Unauthorized"))
                 /\ calls = <<>>
        /\ (getUserId(req) # Null /\ InvalidTarget(TargetKm(req)))
              => /\ res = InvalidDistance
                 /\ calls = <<>>

\* a request with neither an identity nor a valid distance was answered 401
\* with no call made
C22_NeitherAnswered401 ==
    /\ Answered
    /\ getUserId(req) = Null
    /\ InvalidTarget(TargetKm(req))
    /\ res.status = 401
    /\ calls = <<>>

-----------------------------------------------------------------------------
(* C23 *)

\* the stored row of the user of the request being handled
StoredRow == users[getUserId(req).str]

\* the calls ensureFreshTokenForUserId has made when it returns
EnsureCalls == SubSeq(calls', 1, Len(calls') - 1)

\* C23: ensureFreshTokenForUserId returns the stored access token without
\* calling the refresh endpoint and without writing the user record when the
\* token expires more than 60 seconds from now; otherwise it calls refresh
\* once, stores the new access token and expiry, keeps the previously stored
\* refresh token when the response carries none, and returns the new access
\* token.
C23_FreshTokenEnsured ==
    [][/\ (pc = "findUnique" /\ pc' = "getActivities")
            => /\ StoredRow.expiresAt - now > 60
               /\ token' = Num(StoredRow.accessToken)
               /\ users' = users
               /\ EnsureCalls = <<"findUnique">>
       /\ (pc = "findUnique" /\ getUserId(req).str \in DOMAIN users
              /\ StoredRow.expiresAt - now <= 60)
            => /\ pc' = "refresh"
               /\ users' = users
       /\ (pc = "update" /\ pc' = "getActivities")
            => /\ EnsureCalls = <<"findUnique", "refreshAccessToken", "update">>
               /\ users' = [users EXCEPT ![getUserId(req).str] =
                    [id |-> StoredRow.id,
                     accessToken |-> data.access_token,
                     refreshToken |-> IF data.refresh_token = Undefined
                                      THEN StoredRow.refreshToken
                                      ELSE data.refresh_token.num,
                     expiresAt |-> data.expires_at]]
               /\ token' = Num(data.access_token)
      ]_vars

\* the token was refreshed with a response that carried no refresh token:
\* the row holds the new access token and the refresh token it had
C23_RefreshTokenKept ==
    /\ pc = "getActivities"
    /\ calls = <<"findUnique", "refreshAccessToken", "update", "getActivities">>
    /\ StoredRow.accessToken = 1
    /\ StoredRow.refreshToken = 0
    /\ token = Num(1)

-----------------------------------------------------------------------------
(* Concurrent requests for one user: GET /me/:userId, GET /activities/:userId *)
(* and GET /api/predict each run ensureFreshToken (lines 86-105) or          *)
(* ensureFreshTokenForUserId (lines 235-252) between awaits, with nothing    *)
(* that serialises them.  Here pc, req, user, data, token and res hold one   *)
(* value per request, and calls is the log of what reached Strava's refresh  *)
(* endpoint and what it answered, in order.                                   *)

\* bound of the model: the requests in flight together
MaxRequests == 2

Handlers == 1..MaxRequests

Endpoints == {"/me/:userId", "/activities/:userId", "/api/predict"}

\* the log entries: a refresh token sent to the refresh endpoint by a request,
\* and the endpoint's answer
Sent(p, rt) == [name |-> "refreshAccessToken", by |-> p, refresh_token |-> Num(rt)]
Refreshed(p, rt) == [name |-> "refreshed", by |-> p, refresh_token |-> rt]

\* how many tokens Strava has issued so far
Issued == Cardinality({i \in DOMAIN calls : calls[i].name = "refreshed"})

\* the user's token is within 60 seconds of expiry, or still fresh
InitTokens ==
    /\ now = 0
    /\ users \in {[u \in {"u1"} |->
                    [id |-> u, accessToken |-> 0, refreshToken |-> 0,
                     expiresAt |-> e]] : e \in {now + 60, now + TokenLifetime}}
    /\ pc = [p \in Handlers |-> "idle"]
    /\ req = [p \in Handlers |-> NoRequest]
    /\ user = [p \in Handlers |-> Null]
    /\ data = [p \in Handlers |-> Null]
    /\ token = [p \in Handlers |-> Null]
    /\ res = [p \in Handlers |-> NoResponse]
    /\ calls = <<>>
    /\ acts = <<>>
    /\ pts = <<>>
    /\ fitRo = NoRoundoff

\* a request arrives and prisma.user.findUnique is issued (lines 108, 121, 236)
Arrive(p, endpoint) ==
    /\ pc[p] = "idle"
    /\ req' = [req EXCEPT ![p] = endpoint]
    /\ pc' = [pc EXCEPT ![p] = "findUnique"]
    /\ UNCHANGED <<users, now, user, data, token, acts, pts, fitRo, calls, res>>

\* lines 92-95 and 239-242: the row is read; a token that expires more than
\* 60 seconds from now is returned as it is, otherwise refreshAccessToken is
\* called with the refresh token of the row read
EnsureReads(p) ==
    /\ pc[p] = "findUnique"
    /\ user' = [user EXCEPT ![p] = users["u1"]]
    /\ IF users["u1"].expiresAt - now > 60
       THEN /\ token' = [token EXCEPT ![p] = Num(users["u1"].accessToken)]
            /\ pc' = [pc EXCEPT ![p] = "call"]
            /\ calls' = calls
       ELSE /\ token' = token
            /\ pc' = [pc EXCEPT ![p] = "refresh"]
            /\ calls' = Append(calls, Sent(p, users["u1"].refreshToken))
    /\ UNCHANGED <<users, now, req, data, acts, pts, fitRo, res>>

\* strava.ts 18-28: Strava issues a new access token, with or without a new
\* refresh token; prisma.user.update is issued
EnsureRefreshReturns(p, withRefreshToken) ==
    /\ pc[p] = "refresh"
    /\ LET rt == IF withRefreshToken THEN Num(Issued + 1) ELSE Undefined
       IN  /\ data' = [data EXCEPT ![p] =
                        [access_token |-> Issued + 1,
                         refresh_token |-> rt,
                         expires_at |-> now + TokenLifetime]]
           /\ calls' = Append(calls, Refreshed(p, rt))
    /\ pc' = [pc EXCEPT ![p] = "update"]
    /\ UNCHANGED <<users, now, req, user, token, acts, pts, fitRo, res>>

\* the message of each endpoint's catch block (lines 117, 131 and 412)
FailureOf(endpoint) ==
    IF endpoint = "/me/:userId" THEN "Failed to fetch profile"
    ELSE IF endpoint = "/activities/:userId" THEN "Failed to fetch activities"
    ELSE "Server error"

\* the refresh endpoint rejects: the catch blocks at 115, 129 and 410 answer
EnsureRefreshFails(p) ==
    /\ pc[p] = "refresh"
    /\ res' = [res EXCEPT ![p] = Response(500, ErrorBody(FailureOf(req[p])))]
    /\ pc' = [pc EXCEPT ![p] = "done"]
    /\ UNCHANGED <<users, now, req, user, data, token, acts, pts, fitRo, calls>>

\* lines 96-104 and 243-251: the row is written from the response and from
\* the row this request read; the new access token is returned
EnsureUpdates(p) ==
    /\ pc[p] = "update"
    /\ users' = [users EXCEPT !["u1"] =
                    [id |-> user[p].id,
                     accessToken |-> data[p].access_token,
                     refreshToken |-> IF data[p].refresh_token = Undefined
                                      THEN user[p].refreshToken
                                      ELSE data[p].refresh_token.num,
                     expiresAt |-> data[p].expires_at]]
    /\ token' = [token EXCEPT ![p] = Num(data[p].access_token)]
    /\ pc' = [pc EXCEPT ![p] = "call"]
    /\ UNCHANGED <<now, req, user, data, acts, pts, fitRo, calls, res>>

\* lines 112-113, 125-127, 359-409: the Strava call with the token returns
\* and the handler answers with what Strava gave for that token
HandlerAnswers(p) ==
    /\ pc[p] = "call"
    /\ res' = [res EXCEPT ![p] = Response(200, [bearer |-> token[p]])]
    /\ pc' = [pc EXCEPT ![p] = "done"]
    /\ UNCHANGED <<users, now, req, user, data, token, acts, pts, fitRo, calls>>

NextTokens ==
    \/ \E p \in Handlers : \E endpoint \in Endpoints : Arrive(p, endpoint)
    \/ \E p \in Handlers : EnsureReads(p)
    \/ \E p \in Handlers : \E withRefreshToken \in BOOLEAN :
            EnsureRefreshReturns(p, withRefreshToken)
    \/ \E p \in Handlers : EnsureRefreshFails(p)
    \/ \E p \in Handlers : EnsureUpdates(p)
    \/ \E p \in Handlers : HandlerAnswers(p)

SpecTokens == InitTokens /\ [][NextTokens]_vars

-----------------------------------------------------------------------------
(* C24 *)

\* the positions of the log where a refresh token was sent
SentAt == {i \in DOMAIN calls : calls[i].name = "refreshAccessToken"}

\* the positions of the log where Strava issued a refresh token
IssuedAt ==
    {i \in DOMAIN calls : calls[i].name = "refreshed"
                          /\ calls[i].refresh_token # Undefined}

\* no request is in flight
Quiet == \A p \in Handlers : pc[p] \in {"idle", "done"}

\* C24 as stated: for any interleaving of concurrent requests for the same
\* user whose token is within 60 seconds of expiry, a given stored refresh
\* token is sent to the refresh endpoint at most once, and the refresh token
\* left in the user record afterwards is the one issued by the most recent
\* successful refresh.
C24_RefreshedOnce ==
    /\ \A i, j \in SentAt :
          calls[i].refresh_token = calls[j].refresh_token => i = j
    /\ (Quiet /\ IssuedAt # {})
          => LET last == CHOOSE i \in IssuedAt : \A j \in IssuedAt : j <= i
             IN  Num(users["u1"].refreshToken) = calls[last].refresh_token

\* two requests overlapped: both sent the stored refresh token 0, Strava
\* issued tokens 1 and 2, and the record was left with token 1
C24_StaleTokenLeft ==
    /\ Quiet
    /\ Cardinality(SentAt) = 2
    /\ \A i \in SentAt : calls[i].refresh_token = Num(0)
    /\ Cardinality(IssuedAt) = 2
    /\ users["u1"].refreshToken = 1
    /\ \A p \in Handlers : res[p].status = 200

-----------------------------------------------------------------------------
(* The journal screen, app/journal/[id].tsx: save (lines 55-79) run by       *)
(* several screens or handlers at once over one AsyncStorage.  Here data is  *)
(* the value stored under JOURNAL_V2 (Null when nothing is stored), now is   *)
(* Date.now() in milliseconds, req[p] the activity id of screen p, user[p]   *)
(* its React state, acts[p] the argument of its pending setItem, and calls   *)
(* the log of the writes that resolved.                                      *)

\* bounds of the model: the saves in flight together, the last clock reading
MaxSavers == 2
MaxClock == 1

Savers == 1..MaxSavers

\* the characters String.prototype.trim removes
WhiteSpace == {" ", "\n", "\t"}

\* text.trim(), a text being a sequence of characters
RECURSIVE TrimStart(_)
TrimStart(t) ==
    IF t # <<>> /\ Head(t) \in WhiteSpace THEN TrimStart(Tail(t)) ELSE t

RECURSIVE TrimEnd(_)
TrimEnd(t) ==
    IF t # <<>> /\ t[Len(t)] \in WhiteSpace
    THEN TrimEnd(SubSeq(t, 1, Len(t) - 1)) ELSE t

\* a variant of Trim that trims the start only
TrimStartOnly(t) == TrimStart(t)

Trim(t) == TrimEnd(TrimStart(t))

\* new Date(ms).toISOString() and back through new Date(dateISO)
ISOString(ms) == [iso |-> ms]
DateOf(dateISO) == dateISO.iso

\* lines 62-67: the entry of a save
Entry(ms, activityId, body) ==
    [id |-> ToString(ms), activityId |-> activityId,
     dateISO |-> ISOString(ms), text |-> body]

\* JSON.stringify of a list of entries: the text, held as the list it denotes
JsonEntries(list) ==
    [json |-> [i \in 1..Len(list) |->
        [id |-> list[i].id, activityId |-> JsonNumber(list[i].activityId),
         dateISO |-> list[i].dateISO, text |-> list[i].text]]]

\* raw ? JSON.parse(raw) : []
ParseOrEmpty(raw) == IF raw = Null THEN <<>> ELSE raw.json

\* lines 45-47: the entries of an activity, newest first (a stable sort)
RECURSIVE InsertNewestFirst(_, _)
InsertNewestFirst(e, list) ==
    IF list = <<>> THEN <<e>>
    ELSE IF DateOf(Head(list).dateISO) >= DateOf(e.dateISO)
    THEN <<Head(list)>> \o InsertNewestFirst(e, Tail(list))
    ELSE <<e>> \o list

RECURSIVE SortNewestFirst(_)
SortNewestFirst(list) ==
    IF list = <<>> THEN <<>>
    ELSE InsertNewestFirst(list[Len(list)],
                           SortNewestFirst(SubSeq(list, 1, Len(list) - 1)))

Mine(all, activityId) ==
    SortNewestFirst(SelectSeq(all, LAMBDA e : e.activityId = activityId))

\* what can be typed into the composer: white space only, a note with white
\* space around it, a note
Texts == {<<" ", "\n">>, <<" ", "a", " ">>, <<"b">>}

\* the activity of each screen: the first is on activity 7, the others on 8
ActivityOf(p) == IF p = 1 THEN Num(7) ELSE Num(8)

\* what earlier saves left in storage
StoredBefore ==
    JsonEntries(<<Entry(-1, Num(7), <<"y">>), Entry(-2, Num(8), <<"x">>)>>)

ScreenState(text, saving, activityNotes) ==
    [text |-> text, saving |-> saving, activityNotes |-> activityNotes]

\* the log of writes
SetItem(p, e) == [op |-> "setItem", by |-> p, entry |-> e]

InitJournal ==
    /\ now = 0
    /\ data \in {Null, StoredBefore}
    /\ pc = [p \in Savers |-> "idle"]
    /\ req = [p \in Savers |-> ActivityOf(p)]
    /\ user = [p \in Savers |-> ScreenState(<<>>, FALSE, <<>>)]
    /\ acts = [p \in Savers |-> Null]
    /\ calls = <<>>
    /\ users = <<>>
    /\ token = Null
    /\ pts = <<>>
    /\ fitRo = NoRoundoff
    /\ res = NoResponse

\* onChangeText={setText}
ChangeText(p, text) ==
    /\ pc[p] = "idle"
    /\ user[p].text = <<>>
    /\ user' = [user EXCEPT ![p].text = text]
    /\ UNCHANGED <<users, now, pc, req, data, token, acts, pts, fitRo, calls, res>>

\* lines 56-60: save is called (Save button or keyboard submit); blank text
\* returns at once, otherwise saving is set and getItem is issued
SaveCalled(p) ==
    /\ pc[p] = "idle"
    /\ IF Trim(user[p].text) = <<>>
       THEN /\ pc' = [pc EXCEPT ![p] = "done"]
            /\ user' = user
       ELSE /\ pc' = [pc EXCEPT ![p] = "getItem"]
            /\ user' = [user EXCEPT ![p].saving = TRUE]
    /\ UNCHANGED <<users, now, req, data, token, acts, pts, fitRo, calls, res>>

\* lines 60-68: getItem resolves with what is stored; the entry is made and
\* setItem is issued with the new list
GetItemResolves(p) ==
    /\ pc[p] = "getItem"
    /\ LET all == ParseOrEmpty(data)
           e == Entry(now, req[p], Trim(user[p].text))
       IN  acts' = [acts EXCEPT ![p] = JsonEntries(<<e>> \o all)]
    /\ pc' = [pc EXCEPT ![p] = "setItem"]
    /\ UNCHANGED <<users, now, req, user, data, token, pts, fitRo, calls, res>>

\* lines 68-72: setItem resolves: the list is stored, the text is cleared and
\* loadNotes issues its getItem
SetItemResolves(p) ==
    /\ pc[p] = "setItem"
    /\ data' = acts[p]
    /\ calls' = Append(calls, SetItem(p, acts[p].json[1]))
    /\ user' = [user EXCEPT ![p].text = <<>>]
    /\ pc' = [pc EXCEPT ![p] = "loadNotes"]
    /\ UNCHANGED <<users, now, req, token, acts, pts, fitRo, res>>

\* lines 43-48 and 76-78: loadNotes' getItem resolves, the notes of the
\* activity are shown and saving is reset
LoadNotesResolves(p) ==
    /\ pc[p] = "loadNotes"
    /\ user' = [user EXCEPT ![p].activityNotes = Mine(ParseOrEmpty(data), req[p]),
                            ![p].saving = FALSE]
    /\ pc' = [pc EXCEPT ![p] = "done"]
    /\ UNCHANGED <<users, now, req, data, token, acts, pts, fitRo, calls, res>>

\* AsyncStorage rejects: lines 76-78 reset saving and the save ends
StorageRejects(p) ==
    /\ pc[p] \in {"getItem", "setItem", "loadNotes"}
    /\ user' = [user EXCEPT ![p].saving = FALSE]
    /\ pc' = [pc EXCEPT ![p] = "done"]
    /\ UNCHANGED <<users, now, req, data, token, acts, pts, fitRo, calls, res>>

\* a millisecond passes
Millisecond ==
    /\ now < MaxClock
    /\ now' = now + 1
    /\ UNCHANGED <<users, pc, req, user, data, token, acts, pts, fitRo, calls, res>>

NextJournal ==
    \/ \E p \in Savers : \E text \in Texts : ChangeText(p, text)
    \/ \E p \in Savers : SaveCalled(p)
    \/ \E p \in Savers : GetItemResolves(p)
    \/ \E p \in Savers : SetItemResolves(p)
    \/ \E p \in Savers : LoadNotesResolves(p)
    \/ \E p \in Savers : StorageRejects(p)
    \/ Millisecond

SpecJournal == InitJournal /\ [][NextJournal]_vars

-----------------------------------------------------------------------------
(* C25 *)

\* text is blank or white space only
Blank(text) == \A i \in DOMAIN text : text[i] \in WhiteSpace

\* body is text without the white space at its two ends
TrimmedOf(body, text) ==
    /\ body # <<>>
    /\ Head(body) \notin WhiteSpace
    /\ body[Len(body)] \notin WhiteSpace
    /\ \E i, j \in DOMAIN text :
          /\ body = SubSeq(text, i, j)
          /\ \A k \in DOMAIN text : (k < i \/ k > j) => text[k] \in WhiteSpace

\* C25: saving a note with non-blank text stores the list of the new entry
\* followed by all the entries the save found in storage, unchanged and in
\* their order, the new entry carrying the activity id of the screen and the
\* trimmed text; saving blank or white-space-only text writes nothing.
C25_SavePrepends ==
    [][\A p \in Savers :
        /\ (pc[p] = "getItem" /\ pc'[p] = "setItem")
              => /\ ~Blank(user[p].text)
                 /\ Len(acts'[p].json) = Len(ParseOrEmpty(data)) + 1
                 /\ Tail(acts'[p].json) = ParseOrEmpty(data)
                 /\ Head(acts'[p].json).activityId = req[p]
                 /\ TrimmedOf(Head(acts'[p].json).text, user[p].text)
                 /\ data' = data
        /\ (pc[p] = "setItem" /\ pc'[p] = "loadNotes") => data' = acts[p]
        /\ (pc[p] = "idle" /\ pc'[p] # "idle" /\ Blank(user[p].text))
              => /\ pc'[p] = "done"
                 /\ data' = data
                 /\ calls' = calls
        /\ pc[p] = "done" => pc'[p] = "done"
      ]_vars

\* a note typed with white space around it was stored trimmed in front of
\* the two entries stored before
C25_NotePrepended ==
    \E p \in Savers :
        /\ pc[p] = "done"
        /\ calls # <<>>
        /\ calls[Len(calls)] = SetItem(p, Entry(now, req[p], <<"a">>))
        /\ data = JsonEntries(<<Entry(now, req[p], <<"a">>)>>
                              \o ParseOrEmpty(StoredBefore))

-----------------------------------------------------------------------------
(* C26 *)

\* the entries in storage
Stored == ParseOrEmpty(data)

\* C26 as stated: no journal note is lost: after any sequence of saves,
\* those included that overlap in time, every note whose save completed is
\* in storage under JOURNAL_V2, and all stored entries have distinct ids.
C26_NoNoteLost ==
    /\ \A i \in DOMAIN calls : \E k \in DOMAIN Stored : Stored[k] = calls[i].entry
    /\ \A i, j \in DOMAIN Stored : Stored[i].id = Stored[j].id => i = j

\* two saves overlapped on an empty journal: both writes resolved, both
\* screens are at rest, and storage holds one note
C26_NoteOverwritten ==
    /\ \A p \in {1, 2} : pc[p] = "done" /\ ~user[p].saving
    /\ Len(calls) = 2
    /\ calls[1].entry.text # calls[2].entry.text
    /\ Len(Stored) = 1

-----------------------------------------------------------------------------
(* The unit preference of the three tabs: Home (part_000:157-166), Predictor *)
(* (performance.tsx:31-48) and Run Planner (run-planner.tsx:55-65).  Here    *)
(* data is AsyncStorage, user the state of each mounted screen (Null when    *)
(* not mounted), calls the queue of storage operations issued and not yet    *)
(* carried out (AsyncStorage carries them out in order), pc whether the app  *)
(* runs, and req the preference last chosen on the Home screen.              *)

\* bound of the model: the storage operations pending together
MaxPending == 3

Screens == {"Home", "Predictor", "RunPlanner"}

\* UNIT_KEY of each screen (part_000:40, performance.tsx:17, run-planner.tsx:47)
UNIT_KEY(screen) == IF screen = "RunPlanner" THEN "unitSystem:v1" ELSE "unit:system"

\* useState(false), useState("km"), useState(true)
Mounted(screen) ==
    IF screen = "Home" THEN [useImperial |-> FALSE, loaded |-> FALSE]
    ELSE IF screen = "Predictor" THEN [unit |-> "km", loaded |-> FALSE]
    ELSE [useMetric |-> TRUE, loaded |-> FALSE]

\* the value each screen's second effect stores for its state
StoredValue(screen, state) ==
    IF screen = "Home" THEN (IF state.useImperial THEN "imperial" ELSE "metric")
    ELSE IF screen = "Predictor" THEN state.unit
    ELSE (IF state.useMetric THEN "metric" ELSE "imperial")

\* the callback of each screen's getItem: the state after v was read
Loaded(screen, state, v) ==
    IF screen = "Home"
    THEN [useImperial |-> IF v = Str("imperial") THEN TRUE
                          ELSE IF v = Str("metric") THEN FALSE
                          ELSE state.useImperial,
          loaded |-> TRUE]
    ELSE IF screen = "Predictor"
    THEN [unit |-> IF v \in {Str("km"), Str("mi")} THEN v.str ELSE state.unit,
          loaded |-> TRUE]
    ELSE [useMetric |-> IF v = Str("imperial") THEN FALSE
                        ELSE IF v = Str("metric") THEN TRUE
                        ELSE state.useMetric,
          loaded |-> TRUE]

\* onPress of each screen's unit toggle
Toggled(screen, state) ==
    IF screen = "Home" THEN [state EXCEPT !.useImperial = ~state.useImperial]
    ELSE IF screen = "Predictor"
    THEN [state EXCEPT !.unit = IF state.unit = "km" THEN "mi" ELSE "km"]
    ELSE [state EXCEPT !.useMetric = ~state.useMetric]

\* the storage operations
GetUnit(screen) == [op |-> "getItem", key |-> UNIT_KEY(screen), by |-> screen, value |-> ""]
SetUnit(screen, state) ==
    [op |-> "setItem", key |-> UNIT_KEY(screen), by |-> screen,
     value |-> StoredValue(screen, state)]

\* the app was never run: nothing is stored
InitUnits ==
    /\ pc = "closed"
    /\ data = [k \in {UNIT_KEY(s) : s \in Screens} |-> Null]
    /\ user = [s \in Screens |-> Null]
    /\ calls = <<>>
    /\ req = Null
    /\ now = 0
    /\ users = <<>>
    /\ token = Null
    /\ acts = <<>>
    /\ pts = <<>>
    /\ fitRo = NoRoundoff
    /\ res = NoResponse

\* a screen mounts: its two effects run, the first issues getItem, the
\* second setItem with the initial state
Mount(screen) ==
    /\ user[screen] = Null
    /\ user' = [user EXCEPT ![screen] = Mounted(screen)]
    /\ calls' = calls \o <<GetUnit(screen), SetUnit(screen, Mounted(screen))>>

\* the app is launched: the Home tab mounts
Launch ==
    /\ pc = "closed"
    /\ pc' = "running"
    /\ Mount("Home")
    /\ UNCHANGED <<users, now, req, data, token, acts, pts, fitRo, res>>

\* the Predictor or the Run Planner tab is opened for the first time
OpenTab(screen) ==
    /\ pc = "running"
    /\ screen # "Home"
    /\ Len(calls) + 2 <= MaxPending
    /\ Mount(screen)
    /\ UNCHANGED <<users, now, pc, req, data, token, acts, pts, fitRo, res>>

\* the user taps the unit toggle of a screen that shows its stored value:
\* the state changes and the second effect issues setItem
Toggle(screen) ==
    /\ pc = "running"
    /\ user[screen] # Null
    /\ user[screen].loaded
    /\ Len(calls) < MaxPending
    /\ LET state == Toggled(screen, user[screen])
       IN  /\ user' = [user EXCEPT ![screen] = state]
           /\ calls' = Append(calls, SetUnit(screen, state))
           /\ req' = IF screen = "Home" THEN Str(StoredValue(screen, state)) ELSE req
    /\ UNCHANGED <<users, now, pc, data, token, acts, pts, fitRo, res>>

\* AsyncStorage carries out the oldest pending operation; a getItem calls
\* back, and a state it changes makes the second effect issue setItem
StorageStep ==
    /\ calls # <<>>
    /\ LET c == Head(calls)
       IN  IF c.op = "setItem"
           THEN /\ data' = [data EXCEPT ![c.key] = Str(c.value)]
                /\ calls' = Tail(calls)
                /\ user' = user
           ELSE LET state == Loaded(c.by, user[c.by], data[c.key])
                IN  /\ data' = data
                    /\ user' = [user EXCEPT ![c.by] = state]
                    /\ calls' =
                          IF StoredValue(c.by, state) # StoredValue(c.by, user[c.by])
                          THEN Append(Tail(calls), SetUnit(c.by, state))
                          ELSE Tail(calls)
    /\ UNCHANGED <<users, now, pc, req, token, acts, pts, fitRo, res>>

\* the app is closed with nothing pending: every screen unmounts
Close ==
    /\ pc = "running"
    /\ calls = <<>>
    /\ pc' = "closed"
    /\ user' = [s \in Screens |-> Null]
    /\ UNCHANGED <<users, now, req, data, token, acts, pts, fitRo, calls, res>>

NextUnits ==
    \/ Launch
    \/ \E screen \in Screens : OpenTab(screen)
    \/ \E screen \in Screens : Toggle(screen)
    \/ StorageStep
    \/ Close

SpecUnits == InitUnits /\ [][NextUnits]_vars

-----------------------------------------------------------------------------
(* C27 *)

\* the Home screen is mounted and shows what it read from storage
HomeRestored ==
    /\ user["Home"] # Null
    /\ user["Home"].loaded
    /\ calls = <<>>

\* C27 as stated: a unit preference chosen on the Home screen is restored
\* the next time the Home screen mounts, whatever other screens were opened
\* and whatever unit toggles were made on them in between.
C27_HomePreferenceRestored ==
    (HomeRestored /\ req # Null)
        => StoredValue("Home", user["Home"]) = req.str

\* imperial was chosen on Home, and the Home screen of a later launch shows
\* metric after reading the Predictor's "km"
C27_PreferenceOverwritten ==
    /\ HomeRestored
    /\ req = Str("imperial")
    /\ ~user["Home"].useImperial
    /\ user["Predictor"] = Null
    /\ user["RunPlanner"] = Null
    /\ data["unit:system"] = Str("metric")

-----------------------------------------------------------------------------
(* The pace formatters on their own: pacePerKm (index.ts:317-322), paceMi    *)
(* (performance.tsx:86-92), formatPace (part_000:58-68) and pace             *)
(* (journal/index.tsx:24-30), each applied to inputs drawn at the start.     *)
(* acts holds the inputs, res the strings rendered so far.                   *)

\* minutes and rounded seconds of a pace of n / d seconds per unit:
\* Math.floor(x / 60) and Math.round(x % 60)
PaceFields(n, d) ==
    [mm |-> n \div (60 * d), ss |-> RoundDiv(n % (60 * d), d)]

PaceText(f, per) == ToString(f.mm) \o ":" \o Pad2(f.ss) \o per

\* performance.tsx 86-92: the pace per mile of a response, null without one;
\* prediction_seconds is in 1 / SecScale, a mile is 1 / 0.621371 km
paceMi(prediction_seconds, distance_km) ==
    IF prediction_seconds = 0 \/ distance_km = 0 THEN Null
    ELSE Str(PaceText(PaceFields(prediction_seconds * (1000000 \div SecScale),
                                 distance_km * 621371), "/mi"))

\* part_000 58-68: the pace of an activity per km or per mile (1609.344 m)
formatPace(meters, seconds, useImperial) ==
    IF meters = 0 \/ seconds = 0 THEN "-"
    ELSE IF useImperial
    THEN PaceText(PaceFields(1609344 * seconds, 1000 * meters), "/mi")
    ELSE PaceText(PaceFields(1000 * seconds, meters), "/km")

\* journal/index.tsx 24-30: minutes per km, the seconds from the fraction
pace(meters, seconds) ==
    IF meters = 0 \/ seconds = 0 THEN "-"
    ELSE LET min == (1000 * seconds) \div (60 * meters)
             sec == RoundDiv(1000 * seconds - 60 * meters * min, meters)
         IN  ToString(min) \o ":" \o Pad2(sec) \o "/km"

\* the inputs: a predicted time in 1 / SecScale and a target in km for the
\* server, a response for the Predictor, an activity for the lists
PaceCases ==
    [totalSec : {14998, 15000, 17850}, km : {3, 5},
     prediction_seconds : {0, 14900, 15000}, distance_km : {5},
     meters : {0, 1000, 3000, 5000}, seconds : {0, 300, 899, 1079},
     useImperial : BOOLEAN]

InitPace ==
    /\ acts \in PaceCases
    /\ pc = "pacePerKm"
    /\ res = [k \in {} |-> ""]
    /\ users = <<>>
    /\ now = 0
    /\ req = NoRequest
    /\ user = Null
    /\ data = Null
    /\ token = Null
    /\ pts = <<>>
    /\ fitRo = NoRoundoff
    /\ calls = <<>>

\* one formatter is applied and its string kept
Rendered(at, text, next) ==
    /\ pc = at
    /\ res' = [k \in DOMAIN res \cup {at} |-> IF k = at THEN text ELSE res[k]]
    /\ pc' = next
    /\ UNCHANGED <<users, now, req, user, data, token, acts, pts, fitRo, calls>>

PacePerKmStep ==
    Rendered("pacePerKm", Str(pacePerKm(Num(acts.totalSec), Num(acts.km))), "paceMi")

PaceMiStep ==
    Rendered("paceMi", paceMi(acts.prediction_seconds, acts.distance_km), "formatPace")

FormatPaceStep ==
    Rendered("formatPace",
             Str(formatPace(acts.meters, acts.seconds, acts.useImperial)), "pace")

PaceStep ==
    Rendered("pace", Str(pace(acts.meters, acts.seconds)), "rendered")

NextPace == PacePerKmStep \/ PaceMiStep \/ FormatPaceStep \/ PaceStep

SpecPace == InitPace /\ [][NextPace]_vars

-----------------------------------------------------------------------------
(* C28 *)

\* text is minutes:seconds and the unit, the seconds two digits in 00..59
PaceWellFormed(text) ==
    \E mm \in 0..MaxPaceMinutes : \E ss \in 0..59 : \E per \in {"/km", "/mi"} :
        text = Str(ToString(mm) \o ":" \o TwoDigits(ss) \o per)

\* C28 as stated: in every pace string the seconds field is two digits in
\* 00..59: for any positive total seconds and distance, pacePerKm and the
\* app's pace formatters never render a seconds value of 60.
C28_SecondsBelowSixty ==
    pc = "rendered" =>
        /\ PaceWellFormed(res["pacePerKm"])
        /\ acts.prediction_seconds > 0 => PaceWellFormed(res["paceMi"])
        /\ (acts.meters > 0 /\ acts.seconds > 0)
              => /\ PaceWellFormed(res["formatPace"])
                 /\ PaceWellFormed(res["pace"])

\* a 5 km prediction of 1499.8 s, a response of 1490.0 s for 5 km and a
\* 3 km activity of 899 s are all rendered with 60 seconds
C28_SixtyRendered ==
    /\ pc = "rendered"
    /\ acts.totalSec = 14998 /\ acts.km = 5
    /\ res["pacePerKm"] = Str("4:60/km")
    /\ res["paceMi"] = Str("7:60/mi")
    /\ acts.meters = 3000 /\ acts.seconds = 899 /\ ~acts.useImperial
    /\ res["formatPace"] = Str("4:60/km")
    /\ res["pace"] = Str("4:60/km")

-----------------------------------------------------------------------------
(* The Predictor screen (performance.tsx): predict (56-84) and the state it  *)
(* sets. users is the id stored under USER_KEY, user the screen's userId,    *)
(* acts the text of the distance field, data the screen's loading, res and   *)
(* error, pc[p] the position of the p-th press of Predict, req[p] its        *)
(* request, res[p] the response it got, calls the alerts shown. The unit     *)
(* stays "km", its initial value (line 31).                                  *)

MaxPredicts == 2

Presses == 1..MaxPredicts

DigitValue == [c \in {"0", "1", "5"} |-> CASE c = "0" -> 0 [] c = "1" -> 1 [] c = "5" -> 5]

RECURSIVE DigitsValue(_, _)
\* the value of the leading digits of text after having read v
DigitsValue(text, v) ==
    IF text = <<>> \/ Head(text) \notin DOMAIN DigitValue THEN v
    ELSE DigitsValue(Tail(text), 10 * v + DigitValue[Head(text)])

\* parseFloat on a text of digits and letters: the number its leading digits
\* spell, NaN when it starts with none
parseFloat(text) ==
    IF text = <<>> \/ Head(text) \notin DOMAIN DigitValue THEN [nan |-> TRUE]
    ELSE Num(DigitsValue(text, 0))

\* performance.tsx 50-54 with unit "km": 0 for NaN and for nothing positive
distKm(distance) ==
    LET v == parseFloat(distance)
    IN  IF v = [nan |-> TRUE] \/ v.num <= 0 THEN 0 ELSE v.num

\* distKm.toFixed(3) of a whole number of km
ToFixed3(km) == ToString(km) \o ".000"

DistanceTexts == {<<"5">>, <<"1", "0">>, <<"0">>, <<"k">>, <<>>}

\* what fetch can resolve to: the server's answers (index.ts:350-412), an
\* answer from something in front of it that is not JSON, and JSON that
\* does not parse or carries no error field
Prediction == [prediction_seconds |-> 15000, distance_km |-> 5]

FetchResponses ==
    {[status |-> 200, json |-> TRUE, parses |-> TRUE, j |-> Prediction],
     [status |-> 400, json |-> TRUE, parses |-> TRUE, j |-> [error |-> "Invalid distance_km"]],
     [status |-> 500, json |-> TRUE, parses |-> TRUE, j |-> [error |-> "Server error"]],
     [status |-> 503, json |-> TRUE, parses |-> TRUE, j |-> <<>>],
     [status |-> 200, json |-> TRUE, parses |-> FALSE, j |-> <<>>],
     [status |-> 502, json |-> FALSE, parses |-> FALSE, j |-> <<>>]}

\* lines 67-76: what the try block does with a response: the result it sets
\* or the message of the error it throws
Handled(r) ==
    IF ~r.json THEN [error |-> "Server error (" \o ToString(r.status) \o ")."]
    ELSE IF ~r.parses THEN [error |-> "JSON Parse error"]
    ELSE IF r.status \notin 200..299
    THEN [error |-> IF "error" \in DOMAIN r.j /\ r.j.error # ""
                    THEN r.j.error ELSE "HTTP " \o ToString(r.status)]
    ELSE [res |-> r.j]

InitPredictor ==
    /\ users \in {Null, Str("1")}
    /\ user = Null
    /\ acts = <<"5">>
    /\ data = [loading |-> FALSE, res |-> Null, error |-> Null]
    /\ pc = [p \in Presses |-> "idle"]
    /\ req = [p \in Presses |-> Null]
    /\ res = [p \in Presses |-> Null]
    /\ calls = <<>>
    /\ now = 0
    /\ token = Null
    /\ pts = <<>>
    /\ fitRo = NoRoundoff

\* line 40: the stored user id arrives
UserIdLoaded ==
    /\ user # users
    /\ user' = users
    /\ UNCHANGED <<users, now, pc, req, data, token, acts, pts, fitRo, calls, res>>

\* line 113 and the presets (147): the distance field changes
SetDistance(text) ==
    /\ acts # text
    /\ acts' = text
    /\ UNCHANGED <<users, now, pc, req, user, data, token, pts, fitRo, calls, res>>

\* lines 77-83: the catch and the finally after an error with message msg
Caught(msg) ==
    /\ data' = [loading |-> FALSE, res |-> Null, error |-> Str(msg)]
    /\ calls' = Append(calls, msg)

\* the same for the press whose earlier setRes(null) is long past: only the
\* error and loading are set
CaughtLater(msg) ==
    /\ data' = [data EXCEPT !.error = Str(msg), !.loading = FALSE]
    /\ calls' = Append(calls, msg)

\* lines 56-64: Predict is pressed (the button is never disabled, 134-139):
\* error and result are cleared, then either an error is thrown at once or
\* loading is set and the request is sent
PredictPressed(p) ==
    /\ pc[p] = "idle"
    /\ \A q \in Presses : q < p => pc[q] # "idle"
    /\ IF user = Null
       THEN /\ Caught("Please connect Strava first.")
            /\ pc' = [pc EXCEPT ![p] = "done"]
            /\ UNCHANGED req
       ELSE IF distKm(acts) = 0
       THEN /\ Caught("Enter a valid distance.")
            /\ pc' = [pc EXCEPT ![p] = "done"]
            /\ UNCHANGED req
       ELSE /\ data' = [loading |-> TRUE, res |-> Null, error |-> Null]
            /\ pc' = [pc EXCEPT ![p] = "fetch"]
            /\ req' = [req EXCEPT ![p] = [distance_km |-> ToFixed3(distKm(acts)),
                                          header |-> user]]
            /\ UNCHANGED calls
    /\ UNCHANGED <<users, now, user, token, acts, pts, fitRo, res>>

\* line 64: fetch resolves with a response
FetchResolves(p, r) ==
    /\ pc[p] = "fetch"
    /\ res' = [res EXCEPT ![p] = r]
    /\ pc' = [pc EXCEPT ![p] = "text"]
    /\ UNCHANGED <<users, now, req, user, data, token, acts, pts, fitRo, calls>>

\* lines 64 and 68: fetch or the reading of the body rejects
NetworkFails(p) ==
    /\ pc[p] \in {"fetch", "text"}
    /\ CaughtLater("Network request failed")
    /\ pc' = [pc EXCEPT ![p] = "done"]
    /\ UNCHANGED <<users, now, req, user, token, acts, pts, fitRo, res>>

\* lines 68-83: the body is read; the result is set, or the error thrown is
\* caught; loading is cleared
TextResolves(p) ==
    /\ pc[p] = "text"
    /\ LET h == Handled(res[p])
       IN  IF "res" \in DOMAIN h
           THEN /\ data' = [data EXCEPT !.res = h.res, !.loading = FALSE]
                /\ UNCHANGED calls
           ELSE CaughtLater(h.error)
    /\ pc' = [pc EXCEPT ![p] = "done"]
    /\ UNCHANGED <<users, now, req, user, token, acts, pts, fitRo, res>>

NextPredictor ==
    \/ UserIdLoaded
    \/ \E text \in DistanceTexts : SetDistance(text)
    \/ \E p \in Presses :
        \/ PredictPressed(p)
        \/ \E r \in FetchResponses : FetchResolves(p, r)
        \/ NetworkFails(p)
        \/ TextResolves(p)

SpecPredictor == InitPredictor /\ [][NextPredictor]_vars

-----------------------------------------------------------------------------
(* C29 *)

\* no predict call is in progress and at least one has finished
PredictsOver ==
    /\ \A p \in Presses : pc[p] \in {"idle", "done"}
    /\ \E p \in Presses : pc[p] = "done"

\* C29 as stated: on the Predictor screen, whenever no predict call is in
\* progress after at least one call has finished, loading is false and
\* exactly one of the result and the error message is set.
C29_ResultOrError ==
    PredictsOver =>
        /\ data.loading = FALSE
        /\ (data.res # Null) # (data.error # Null)

\* two presses overlapped, the first got the prediction and the second a
\* network error: the screen holds both the result and the error
C29_ResultAndError ==
    /\ PredictsOver
    /\ data.loading = FALSE
    /\ data.res = Prediction
    /\ data.error = Str("Network request failed")
    /\ calls = <<"Network request failed">>

=============================================================================
